---------------------------- MODULE Spec2Model ----------------------------
(***************************************************************************)
(* LatencyFleX: the frame pacer (latencyflex.h) and the Vulkan layer that  *)
(* drives it (layer/latencyflex_layer.cpp).                                *)
(*                                                                         *)
(* Units.  The code keeps every time in nanoseconds.  The model keeps the  *)
(* same quantities in milliseconds: a model integer t stands for the       *)
(* code's t * 10^6 ns, so 50000000 ns is 50 and 1000000 ns is 1.           *)
(*                                                                         *)
(* Doubles.  The estimators are doubles in the code.  The model keeps them *)
(* in fixed point, Scale units per millisecond, and computes every         *)
(* expression in the order the code does.                                  *)
(*                                                                         *)
(* Threads.  The tick thread runs lfx_WaitAndBeginFrame, the render thread *)
(* runs the acquire and present intercepts, the worker thread runs         *)
(* FenceWaitThread::Worker.  Each action is one step of one thread between *)
(* two accesses to shared state; a critical section of global_lock is a    *)
(* lock step followed by a step that does the work and unlocks.            *)
(***************************************************************************)
EXTENDS Integers, Sequences, FiniteSets, TLC

(***************************************************************************)
(* Program constants                                                       *)
(***************************************************************************)
\* stdint's UINT64_MAX, the "unset" marker of the pacer and the idle tracker;
\* the model's word is as wide as TLC's integers.
UINT64_MAX == 2147483647
kMaxInflightFrames == 16
kMaxFrameDrift == 16
kRecalibrationSleepTime == 200
\* UINT64_C(50000000) ns, the failsafe horizon of lfx_WaitAndBeginFrame
kFailsafe == 50
\* INT64_C(1000000) and INT64_C(50000000), the std::clamp range of EndFrame
kClampLo == 1
kClampHi == 50

(***************************************************************************)
(* Bounds of the model                                                     *)
(***************************************************************************)
\* Spec: calls of lfx_WaitAndBeginFrame, of lfx_QueuePresentKHR and of an
\* acquire intercept that the application makes
MaxTicks == 2
MaxPresents == 1
MaxAcquires == 1
\* LoopSpec: iterations of the application's loop, acquire calls in them, and
\* how many times ClockStep ms pass while a fence is waited for
LoopTicks == 4
LoopAcquires == 1
LoopClockSteps == 1
\* StartupSpec: calls of lfx_WaitAndBeginFrame and of lfx_QueuePresentKHR
StartupTicks == 2
StartupPresents == 3
\* DriftSpec: calls of lfx_WaitAndBeginFrame and of lfx_QueuePresentKHR
DriftTicks == 19
DriftPresents == 1
\* LockSpec: calls of lfx_WaitAndBeginFrame, of lfx_QueuePresentKHR and of
\* lfx_SetTargetFrameTime, and the frame time, in ms, that is set
LockTicks == 2
LockPresents == 1
LockSets == 1
TargetFrameTime == 20
\* DestroySpec: calls of lfx_WaitAndBeginFrame and of lfx_QueuePresentKHR
\* before lfx_DestroyDevice
DestroyTicks == 2
DestroyPresents == 1
\* FenceSpec: calls of lfx_WaitAndBeginFrame and of lfx_QueuePresentKHR
FenceTicks == 2
FencePresents == 1
\* PacerSpec: calls made on the pacer, the highest frame id passed to it, and
\* steps of the clock between the calls
PacerOps == 6
MaxPacerFrame == 2
PacerClockSteps == 1
\* EwmaSpec: updates of one estimator
MaxUpdates == 8
\* ShutdownSpec: calls of lfx_WaitAndBeginFrame and of lfx_QueuePresentKHR
\* before the device is destroyed
ShutdownTicks == 2
ShutdownPresents == 1

\* WaiterSpec: calls of lfx_WaitAndBeginFrame and of lfx_QueuePresentKHR
\* before lfx_DestroyDevice
WaiterTicks == 2
WaiterPresents == 2
\* ModeSpec: calls of lfx_WaitAndBeginFrame, of the acquire intercept, and
\* steps of the clock
ModeTicks == 3
ModeAcquires == 1
ModeClockSteps == 1
\* CLOCK_BOOTTIME, in ms, when the layer is loaded
BootTime == 1000
\* the time that passes in one environment step
ClockStep == 50
\* fixed-point units per millisecond
Scale == 1000
\* what the indeterminate prev_frame_end_ts_ of a temporary may read as
UninitValues == {0, 1}

Slots == 0 .. (kMaxInflightFrames - 1)

(***************************************************************************)
(* Conversions                                                             *)
(***************************************************************************)
\* (uint64_t) of an int64_t value: two's complement
ToU64(x) == IF x < 0 THEN UINT64_MAX - ((0 - x) - 1) ELSE x

\* (int64_t) of a uint64_t value: two's complement, so UINT64_MAX is -1
ToI64(x) == IF x > UINT64_MAX \div 2 THEN (x - UINT64_MAX) - 1 ELSE x

\* a difference of two int64_t values as the compiled subtraction leaves
\* it: where the exact difference is outside int64_t (undefined in C++) the
\* sub instruction of the build wraps it
SubI64(a, b) ==
  IF a - b > UINT64_MAX \div 2 THEN ((a - b) - UINT64_MAX) - 1
  ELSE IF a - b < (0 - (UINT64_MAX \div 2)) - 1 THEN ((a - b) + UINT64_MAX) + 1
  ELSE a - b

\* std::round of a fixed-point value: to the nearest integer, halves away
\* from zero
Round(x) ==
  IF x >= 0 THEN (x + (Scale \div 2)) \div Scale
  ELSE 0 - (((0 - x) + (Scale \div 2)) \div Scale)

\* (int64_t) of a fixed-point value: truncation toward zero
Trunc(x) == IF x >= 0 THEN x \div Scale ELSE 0 - ((0 - x) \div Scale)

\* a product of two fixed-point values, rounded toward zero
FMul(a, b) ==
  IF (a >= 0) = (b >= 0)
  THEN ((IF a >= 0 THEN a ELSE 0 - a) * (IF b >= 0 THEN b ELSE 0 - b)) \div Scale
  ELSE 0 - (((IF a >= 0 THEN a ELSE 0 - a) * (IF b >= 0 THEN b ELSE 0 - b)) \div Scale)

\* a clamp that lets every value through
Clamp_None(x, lo, hi) == x

Clamp(x, lo, hi) == IF x < lo THEN lo ELSE IF x > hi THEN hi ELSE x

Max(a, b) == IF a >= b THEN a ELSE b

Min(a, b) == IF a <= b THEN a ELSE b

(***************************************************************************)
(* internal::EwmaEstimator                                                 *)
(***************************************************************************)
\* EwmaEstimator(alpha, full_weight); alpha in fixed point
EwmaEstimator(alpha, full_weight) ==
  [alpha_ |-> alpha, current_ |-> 0,
   current_weight_ |-> IF full_weight THEN Scale ELSE 0]

\* an update that leaves the weight alone
update_KeepsWeight(e, value) ==
  [e EXCEPT !.current_ = FMul(Scale - e.alpha_, e.current_) + e.alpha_ * value]

\* update(value): value in ms
update(e, value) ==
  [e EXCEPT !.current_ = FMul(Scale - e.alpha_, e.current_) + e.alpha_ * value,
            !.current_weight_ = FMul(Scale - e.alpha_, e.current_weight_) + e.alpha_]

\* an estimator EwmaEstimator(0.3), as the pacer constructs latency_ and
\* inv_throughtput_, with the value every update of it carries and the
\* number of updates made
Probe(value) ==
  [e |-> EwmaEstimator((3 * Scale) \div 10, FALSE), value |-> value, updates |-> 0]

\* get(): fixed point
get(e) ==
  IF e.current_weight_ = 0 THEN 0
  ELSE IF e.current_ >= 0 THEN (e.current_ * Scale) \div e.current_weight_
  ELSE 0 - (((0 - e.current_) * Scale) \div e.current_weight_)

(***************************************************************************)
(* LatencyFleX                                                             *)
(***************************************************************************)
\* cycle_ = {1.08, 0.96}, fixed point
cycle_ == <<(108 * Scale) \div 100, (96 * Scale) \div 100>>

\* the constructor; u is what the member without an initializer,
\* prev_frame_end_ts_, holds
LatencyFleX(u) ==
  [frame_begin_ts_ |-> [i \in Slots |-> 0],
   frame_begin_ids_ |-> [i \in Slots |-> UINT64_MAX],
   frame_end_projected_ts_ |-> [i \in Slots |-> 0],
   frame_end_projection_base_ |-> UINT64_MAX,
   prev_frame_begin_id_ |-> UINT64_MAX,
   prev_correction_ |-> 0,
   prev_frame_end_id_ |-> UINT64_MAX,
   prev_frame_end_ts_ |-> u,
   latency_ |-> EwmaEstimator((3 * Scale) \div 10, FALSE),
   inv_throughtput_ |-> EwmaEstimator((3 * Scale) \div 10, FALSE),
   proj_correction_ |-> EwmaEstimator((5 * Scale) \div 10, TRUE),
   target_frame_time |-> 0,
   track_base_ |-> 0]

\* 1 / gain, fixed point
InvGain(gain) == (Scale * Scale) \div gain

\* the part of GetWaitTarget that runs when a frame has ended: m1 is the
\* pacer after the projection base / correction update
WaitTargetBase(m) ==
  IF m.frame_end_projection_base_ = UINT64_MAX
  THEN [m EXCEPT !.frame_end_projection_base_ = m.prev_frame_end_ts_]
  ELSE LET correction ==
             ToI64(m.prev_frame_end_ts_) -
             (ToI64(m.frame_end_projection_base_) +
              ToI64(m.frame_end_projected_ts_[m.prev_frame_end_id_ % kMaxInflightFrames]))
       IN [m EXCEPT !.proj_correction_ = update(@, correction - m.prev_correction_),
                    !.prev_correction_ = correction]

GetWaitTarget(m, frame_id) ==
  IF m.prev_frame_end_id_ # UINT64_MAX
  THEN LET phase == frame_id % Len(cycle_)
           gain == cycle_[phase + 1]
           invtpt == get(m.inv_throughtput_)
           m1 == WaitTargetBase(m)
           prevproj ==
             ToI64(m1.frame_end_projected_ts_[m1.prev_frame_begin_id_ % kMaxInflightFrames])
           comp == Trunc(Max(get(m1.proj_correction_), 0))
           delta == ToI64(frame_id) - ToI64(m1.prev_frame_begin_id_)
           target ==
             ToU64(ToI64(m1.frame_end_projection_base_) + prevproj + comp +
                   Round(FMul(delta * Scale + InvGain(gain) - Scale, invtpt)
                         - get(m1.latency_)))
           mingain == IF gain < Scale THEN gain ELSE Scale
           new_projection ==
             ToU64(prevproj + comp +
                   Round(FMul(delta * Scale + InvGain(mingain) - Scale, invtpt)))
       IN [m |-> [m1 EXCEPT !.frame_end_projected_ts_[frame_id % kMaxInflightFrames] =
                              new_projection],
           target |-> target]
  ELSE [m |-> m, target |-> 0]

\* a BeginFrame that always writes to the first slot
BeginFrame_FirstSlot(m, frame_id, timestamp) ==
  [m EXCEPT !.frame_begin_ids_[0] = frame_id,
            !.frame_begin_ts_[0] = timestamp,
            !.prev_frame_begin_id_ = frame_id]

\* a BeginFrame that writes the begin of the frame into the fields of its end
BeginFrame_AsEnd(m, frame_id, timestamp) ==
  [m EXCEPT !.frame_begin_ids_[frame_id % kMaxInflightFrames] = frame_id,
            !.frame_begin_ts_[frame_id % kMaxInflightFrames] = timestamp,
            !.prev_frame_end_id_ = frame_id,
            !.prev_frame_end_ts_ = timestamp]

\* BeginFrame(frame_id, timestamp)
BeginFrame(m, frame_id, timestamp) ==
  [m EXCEPT !.frame_begin_ids_[frame_id % kMaxInflightFrames] = frame_id,
            !.frame_begin_ts_[frame_id % kMaxInflightFrames] = timestamp,
            !.prev_frame_begin_id_ = frame_id]

\* an EndFrame that takes every frame id as begun
SlotHolds_Always(m, frame_id) == TRUE

\* a phase that is the down phase for every frame
Phase_Down(frame_id) == 1

\* size_t phase = frame_id % cycle_.size(): 0 is the up phase (gain
\* cycle_[0] above 1), 1 the down phase
Phase(frame_id) == frame_id % Len(cycle_)

\* an EndFrame that frees every slot of the table of begun frames
EndFrame_FreesAll(m, frame_id, timestamp) ==
  IF m.frame_begin_ids_[frame_id % kMaxInflightFrames] = frame_id
  THEN [m |-> [m EXCEPT !.frame_begin_ids_ = [i \in Slots |-> UINT64_MAX],
                        !.prev_frame_end_id_ = frame_id,
                        !.prev_frame_end_ts_ = timestamp],
        latency |-> kClampLo, frame_time |-> ToU64(0 - 1)]
  ELSE [m |-> m, latency |-> ToU64(0 - 1), frame_time |-> ToU64(0 - 1)]

\* the test of EndFrame: the slot of frame_id holds frame_id
SlotHolds(m, frame_id) ==
  m.frame_begin_ids_[frame_id % kMaxInflightFrames] = frame_id

\* an EndFrame that leaves the id of the frame in its slot
EndFrame_KeepsSlot(m, frame_id, timestamp) ==
  LET phase == Phase(frame_id) IN
  IF SlotHolds(m, frame_id)
  THEN LET frame_start == m.frame_begin_ts_[frame_id % kMaxInflightFrames]
           latency_val == Clamp(SubI64(ToI64(timestamp), ToI64(frame_start)), kClampLo, kClampHi)
           lat1 == IF phase = 1 /\ latency_val > 0
                   THEN update(m.latency_, latency_val) ELSE m.latency_
           timed == m.prev_frame_end_id_ # UINT64_MAX /\ frame_id > m.prev_frame_end_id_
           frames_elapsed == frame_id - m.prev_frame_end_id_
           quot == LET d == SubI64(ToI64(timestamp), ToI64(m.prev_frame_end_ts_)) IN
                   IF d >= 0 THEN d \div frames_elapsed
                   ELSE 0 - ((0 - d) \div frames_elapsed)
           frame_time_val == IF timed THEN Clamp(quot, kClampLo, kClampHi) ELSE 0 - 1
           tpt1 == IF timed /\ phase = 0 /\ frame_time_val > 0
                   THEN update(m.inv_throughtput_, frame_time_val)
                   ELSE m.inv_throughtput_
       IN [m |-> [m EXCEPT !.latency_ = lat1,
                           !.inv_throughtput_ = tpt1,
                           !.prev_frame_end_id_ = frame_id,
                           !.prev_frame_end_ts_ = timestamp],
           latency |-> ToU64(latency_val),
           frame_time |-> ToU64(frame_time_val)]
  ELSE [m |-> m, latency |-> ToU64(0 - 1), frame_time |-> ToU64(0 - 1)]

\* EndFrame(frame_id, timestamp, &latency, &frame_time): the pacer after the
\* call and the two values written through the pointers
EndFrame(m, frame_id, timestamp) ==
  LET phase == Phase(frame_id) IN
  IF SlotHolds(m, frame_id)
  THEN LET frame_start == m.frame_begin_ts_[frame_id % kMaxInflightFrames]
           latency_val == Clamp(SubI64(ToI64(timestamp), ToI64(frame_start)), kClampLo, kClampHi)
           lat1 == IF phase = 1 /\ latency_val > 0
                   THEN update(m.latency_, latency_val) ELSE m.latency_
           timed == m.prev_frame_end_id_ # UINT64_MAX /\ frame_id > m.prev_frame_end_id_
           frames_elapsed == frame_id - m.prev_frame_end_id_
           quot == LET d == SubI64(ToI64(timestamp), ToI64(m.prev_frame_end_ts_)) IN
                   IF d >= 0 THEN d \div frames_elapsed
                   ELSE 0 - ((0 - d) \div frames_elapsed)
           frame_time_val == IF timed THEN Clamp(quot, kClampLo, kClampHi) ELSE 0 - 1
           tpt1 == IF timed /\ phase = 0 /\ frame_time_val > 0
                   THEN update(m.inv_throughtput_, frame_time_val)
                   ELSE m.inv_throughtput_
       IN [m |-> [m EXCEPT !.frame_begin_ids_[frame_id % kMaxInflightFrames] = UINT64_MAX,
                           !.latency_ = lat1,
                           !.inv_throughtput_ = tpt1,
                           !.prev_frame_end_id_ = frame_id,
                           !.prev_frame_end_ts_ = timestamp],
           latency |-> ToU64(latency_val),
           frame_time |-> ToU64(frame_time_val)]
  ELSE [m |-> m, latency |-> ToU64(0 - 1), frame_time |-> ToU64(0 - 1)]

\* whether the build defines LATENCYFLEX_HAVE_PERFETTO (the meson option
\* 'perfetto'); it never changes in a run
VARIABLE LATENCYFLEX_HAVE_PERFETTO

\* new_instance.track_base_ of Reset: moved on by two blocks of tracks where
\* the build traces, the constructor's 0 where it does not
TrackBase(m) ==
  IF LATENCYFLEX_HAVE_PERFETTO THEN m.track_base_ + 2 * kMaxInflightFrames ELSE 0

\* a Reset that forgets the begun frames and keeps the last ended one
Reset_KeepsFrameEnd(m, u) ==
  [LatencyFleX(u) EXCEPT !.target_frame_time = m.target_frame_time,
                         !.track_base_ = TrackBase(m),
                         !.prev_frame_end_id_ = m.prev_frame_end_id_,
                         !.prev_frame_end_ts_ = m.prev_frame_end_ts_]

\* a Reset that clears the estimates and leaves the table of begun frames
Reset_KeepsSlots(m, u) ==
  [LatencyFleX(u) EXCEPT !.target_frame_time = m.target_frame_time,
                         !.track_base_ = TrackBase(m),
                         !.frame_begin_ids_ = m.frame_begin_ids_,
                         !.frame_begin_ts_ = m.frame_begin_ts_]

\* a Reset without line 234: the new instance keeps the constructor's target
Reset_DropsTarget(m, u) == [LatencyFleX(u) EXCEPT !.track_base_ = TrackBase(m)]

\* a Reset that puts every reset pacer on the second block of tracks
Reset_FixedTrack(m, u) ==
  [LatencyFleX(u) EXCEPT !.target_frame_time = m.target_frame_time,
                         !.track_base_ = IF LATENCYFLEX_HAVE_PERFETTO
                                         THEN 2 * kMaxInflightFrames ELSE 0]

\* Reset(): a new instance (whose prev_frame_end_ts_ is u) with the next
\* track_base_ and the old target_frame_time, assigned over the pacer
Reset(m, u) ==
  [LatencyFleX(u) EXCEPT !.target_frame_time = m.target_frame_time,
                         !.track_base_ = TrackBase(m)]

(***************************************************************************)
(* State                                                                   *)
(***************************************************************************)
VARIABLES
  manager,               \* lfx::LatencyFleX manager
  frame_counter,         \* std::atomic_uint64_t frame_counter
  ticker_needs_reset,    \* std::atomic_bool ticker_needs_reset
  frame_counter_render,  \* std::atomic_uint64_t frame_counter_render
  idle_tracker,          \* IdleTracker idle_tracker: last_began_frame, last_finished_frame
  is_placebo_mode,       \* bool is_placebo_mode, set by OnLoad
  global_lock,           \* std::mutex global_lock: "free" or the thread that holds it
  queue_,                \* FenceWaitThread::queue_, a deque of PresentInfo
  failsafe_triggered,    \* static uint64_t failsafe_triggered of lfx_WaitAndBeginFrame
  clock,                 \* what current_time_ns() returns
  tick,                  \* the thread in lfx_WaitAndBeginFrame: its place and locals
  render,                \* the thread in the acquire / present intercepts
  worker,                \* the thread in FenceWaitThread::Worker
  running_,              \* bool FenceWaitThread::running_
  setter,                \* the thread in lfx_SetTargetFrameTime
  destroyer,             \* the thread in lfx_DestroyDevice
  fresh,                 \* a second lfx::LatencyFleX, constructed beside manager
  probe,                 \* an internal::EwmaEstimator and the value it is fed
  hist                   \* history of the run, read only by the properties

vars == <<manager, frame_counter, ticker_needs_reset, frame_counter_render,
          idle_tracker, is_placebo_mode, global_lock, queue_, failsafe_triggered,
          clock, tick, render, worker, running_, setter, destroyer,
          LATENCYFLEX_HAVE_PERFETTO, fresh, probe, hist>>

\* VkResult values the next layer's acquire may return: VK_ERROR_OUT_OF_DATE_KHR,
\* VK_SUCCESS, VK_SUBOPTIMAL_KHR
AcquireResults == {0 - 1000001004, 0, 1000001003}

FrameIds ==
  0 .. (MaxTicks + LoopTicks + StartupTicks + DriftTicks + MaxPresents + StartupPresents)

TickIdle ==
  [pc |-> "idle", frame_counter_local |-> 0, frame_counter_render_local |-> 0,
   now |-> 0, target |-> 0, wakeup |-> 0, dur |-> 0, deadline |-> 0,
   \* history of the call, read only by the properties
   sim_observed |-> 0, render_observed |-> 0, acquire_error_seen |-> FALSE,
   recalibrated |-> FALSE, ends_seen |-> 0, clamped |-> FALSE, slept |-> 0,
   drift_seen |-> FALSE, sleep_result |-> "none"]

RenderIdle ==
  [pc |-> "idle", frame_counter_local |-> 0, frame_counter_render_local |-> 0,
   res |-> 0, ret |-> 0,
   \* history of the call: the value frame_counter_render++ produced, and
   \* what CreateFence returned
   incremented |-> 0, create_res |-> 0]

WorkerIdle ==
  [pc |-> "wait_queue", fence |-> "none", frame_id |-> 0, complete |-> 0, latency |-> 0]

\* the thread that calls lfx_SetTargetFrameTime(target_frame_time)
SetterIdle == [pc |-> "idle", target_frame_time |-> 0]

\* the thread that calls lfx_DestroyDevice; device_dispatch tells whether the
\* device's entry of device_dispatch is still there
DestroyerIdle == [pc |-> "idle", device_dispatch |-> TRUE]

HistInit ==
  [ticks |-> 0, presents |-> 0, acquires |-> 0, clock_steps |-> 0,
   end_calls |-> 0, begun |-> {}, gwt_calls |-> [f \in FrameIds |-> 0],
   acquire_error_pending |-> FALSE, consecutive_clamps |-> 0,
   drift_pending |-> FALSE, sets |-> 0, ended_while_waiting |-> FALSE,
   \* of a program that calls the pacer directly: the calls made, the last
   \* one, what it returned on manager and on fresh, whether a Reset found
   \* an ended frame in manager, and whether every call so far returned the
   \* same on both
   ops |-> 0, last_op |-> "none", ret |-> <<>>, fresh_ret |-> <<>>,
   reset_used |-> FALSE, agree |-> TRUE,
   \* how many of the last calls were Reset, one after the other
   resets_in_row |-> 0,
   \* the frame_id passed to the last call that takes one
   frame_id |-> 0,
   \* the frame ids of the sentinels pushed, of the worker's calls of
   \* EndFrame and of its calls of IdleTracker::End, each in the order made
   pushed |-> <<>>, end_frames |-> <<>>, ends |-> <<>>,
   \* the timestamp passed to the last EndFrame call and the begin timestamp
   \* its slot held
   stamp |-> 0, began |-> 0,
   \* per slot, the delay compensation the last GetWaitTarget call for a
   \* frame of the slot added to its target
   comp_applied |-> [i \in Slots |-> 0],
   \* the frames whose last BeginFrame an EndFrame has consumed, and whether
   \* the last EndFrame call was for such a frame
   consumed |-> {}, again |-> FALSE,
   \* how many sentinels had been pushed when the last recalibration began,
   \* as long as the worker has not called EndFrame for all of them (0
   \* otherwise)
   stale_upto |-> 0,
   \* whether an acquire has failed between the counter stores of the
   \* running recalibration and its store of ticker_needs_reset
   error_since_store |-> FALSE]

\* after static initialization, in a process whose environment sets neither
\* LFX_MAX_FPS nor LFX_PLACEBO: the zero-initialized globals, the constructor
\* of manager, OnLoad, and a created device with its FenceWaitThread
Init ==
  /\ manager = LatencyFleX(0)
  /\ frame_counter = 0
  /\ ticker_needs_reset = FALSE
  /\ frame_counter_render = 0
  /\ idle_tracker = [last_began_frame |-> UINT64_MAX, last_finished_frame |-> UINT64_MAX]
  /\ is_placebo_mode = FALSE
  /\ global_lock = "free"
  /\ queue_ = <<>>
  /\ failsafe_triggered = 0
  /\ clock = BootTime
  /\ tick = TickIdle
  /\ render = RenderIdle
  /\ worker = WorkerIdle
  /\ running_ = TRUE
  /\ setter = SetterIdle
  /\ destroyer = DestroyerIdle
  /\ LATENCYFLEX_HAVE_PERFETTO = FALSE
  /\ fresh = LatencyFleX(0)
  /\ probe = Probe(kClampLo)
  /\ hist = HistInit

(***************************************************************************)
(* The environment's clock                                                 *)
(***************************************************************************)
AdvanceClock ==
  /\ clock' = clock + ClockStep
  /\ hist' = [hist EXCEPT !.clock_steps = @ + 1]
  /\ UNCHANGED <<LATENCYFLEX_HAVE_PERFETTO, probe, fresh, setter, destroyer, running_,
                 manager, frame_counter, ticker_needs_reset, frame_counter_render,
                 idle_tracker, is_placebo_mode, global_lock, queue_,
                 failsafe_triggered, tick, render, worker>>

(***************************************************************************)
(* lfx_WaitAndBeginFrame, on the tick thread                               *)
(***************************************************************************)
\* the lock step without the lock
T_BeginLock_Unlocked ==
  /\ tick.pc = "begin_lock"
  /\ tick' = [tick EXCEPT !.pc = "begin_frame"]
  /\ UNCHANGED <<LATENCYFLEX_HAVE_PERFETTO, probe, fresh, setter, destroyer, running_,
                 manager, frame_counter, ticker_needs_reset, frame_counter_render,
                 idle_tracker, is_placebo_mode, global_lock, queue_,
                 failsafe_triggered, clock, render, worker, hist>>

\* a tick that does not count
NextFrameCounter_Same(c) == c

\* frame_counter++; frame_counter_local = frame_counter.load()
\* (only this thread writes frame_counter)
NextFrameCounter(c) == c + 1

T_Increment ==
  /\ tick.pc = "idle"
  /\ frame_counter' = NextFrameCounter(frame_counter)
  /\ tick' = [TickIdle EXCEPT !.pc = "load_render",
                              !.frame_counter_local = NextFrameCounter(frame_counter)]
  /\ hist' = [hist EXCEPT !.ticks = @ + 1]
  /\ UNCHANGED <<LATENCYFLEX_HAVE_PERFETTO, probe, fresh, setter, destroyer, running_,
                 manager, ticker_needs_reset, frame_counter_render, idle_tracker,
                 is_placebo_mode, global_lock, queue_, failsafe_triggered, clock,
                 render, worker>>

\* frame_counter_render_local = frame_counter_render.load()
T_LoadRender ==
  /\ tick.pc = "load_render"
  /\ tick' = [tick EXCEPT !.pc = "check",
                          !.frame_counter_render_local = frame_counter_render,
                          !.sim_observed = tick.frame_counter_local,
                          !.render_observed = frame_counter_render]
  /\ UNCHANGED <<LATENCYFLEX_HAVE_PERFETTO, probe, fresh, setter, destroyer, running_,
                 manager, frame_counter, ticker_needs_reset, frame_counter_render,
                 idle_tracker, is_placebo_mode, global_lock, queue_,
                 failsafe_triggered, clock, render, worker, hist>>

\* the test with < in place of <=
PresentedWithoutTick_Strict(frame_counter_local, frame_counter_render_local) ==
  frame_counter_local < frame_counter_render_local

\* the test of line 458: presentation has happened without a tick
PresentedWithoutTick(frame_counter_local, frame_counter_render_local) ==
  frame_counter_local <= frame_counter_render_local

\* if (frame_counter_local <= frame_counter_render_local)
\*   ticker_needs_reset.store(true);
\* if (ticker_needs_reset.load()) ...
T_Check ==
  /\ tick.pc = "check"
  /\ LET flag == ticker_needs_reset \/
                 PresentedWithoutTick(tick.frame_counter_local,
                                      tick.frame_counter_render_local)
     IN /\ ticker_needs_reset' = flag
        /\ tick' = [tick EXCEPT !.pc = IF flag THEN "recal_sleep" ELSE "read_now",
                                !.acquire_error_seen = hist.acquire_error_pending,
                                !.drift_seen = hist.drift_pending]
  /\ hist' = [hist EXCEPT !.acquire_error_pending = FALSE, !.drift_pending = FALSE]
  /\ UNCHANGED <<LATENCYFLEX_HAVE_PERFETTO, probe, fresh, setter, destroyer, running_,
                 manager, frame_counter, frame_counter_render, idle_tracker,
                 is_placebo_mode, global_lock, queue_, failsafe_triggered, clock,
                 render, worker>>

\* std::this_thread::sleep_for(kRecalibrationSleepTime)
T_RecalSleep ==
  /\ tick.pc = "recal_sleep"
  /\ clock' = clock + kRecalibrationSleepTime
  /\ tick' = [tick EXCEPT !.pc = "store_counter", !.recalibrated = TRUE,
                          !.slept = @ + kRecalibrationSleepTime]
  /\ hist' = [hist EXCEPT !.stale_upto = IF Len(hist.pushed) > Len(hist.end_frames)
                                         THEN Len(hist.pushed) ELSE 0]
  /\ UNCHANGED <<LATENCYFLEX_HAVE_PERFETTO, probe, fresh, setter, destroyer, running_,
                 manager, frame_counter, ticker_needs_reset, frame_counter_render,
                 idle_tracker, is_placebo_mode, global_lock, queue_,
                 failsafe_triggered, render, worker>>

\* frame_counter.store(1); frame_counter_local = 1
T_StoreCounter ==
  /\ tick.pc = "store_counter"
  /\ frame_counter' = 1
  /\ tick' = [tick EXCEPT !.pc = "store_render", !.frame_counter_local = 1]
  /\ UNCHANGED <<LATENCYFLEX_HAVE_PERFETTO, probe, fresh, setter, destroyer, running_,
                 manager, ticker_needs_reset, frame_counter_render, idle_tracker,
                 is_placebo_mode, global_lock, queue_, failsafe_triggered, clock,
                 render, worker, hist>>

\* frame_counter_render.store(0); frame_counter_render_local = 0
T_StoreRender ==
  /\ tick.pc = "store_render"
  /\ frame_counter_render' = 0
  /\ tick' = [tick EXCEPT !.pc = "clear_flag", !.frame_counter_render_local = 0]
  /\ UNCHANGED <<LATENCYFLEX_HAVE_PERFETTO, probe, fresh, setter, destroyer, running_,
                 manager, frame_counter, ticker_needs_reset, idle_tracker,
                 is_placebo_mode, global_lock, queue_, failsafe_triggered, clock,
                 render, worker, hist>>

\* ticker_needs_reset.store(false)
T_ClearFlag ==
  /\ tick.pc = "clear_flag"
  /\ ticker_needs_reset' = FALSE
  /\ tick' = [tick EXCEPT !.pc = "reset_lock"]
  /\ hist' = [hist EXCEPT !.error_since_store = FALSE]
  /\ UNCHANGED <<LATENCYFLEX_HAVE_PERFETTO, probe, fresh, setter, destroyer, running_,
                 manager, frame_counter, frame_counter_render, idle_tracker,
                 is_placebo_mode, global_lock, queue_, failsafe_triggered, clock,
                 render, worker>>

\* scoped_lock l(global_lock), before manager.Reset()
T_ResetLock ==
  /\ tick.pc = "reset_lock"
  /\ global_lock = "free"
  /\ global_lock' = "tick"
  /\ tick' = [tick EXCEPT !.pc = "reset"]
  /\ UNCHANGED <<LATENCYFLEX_HAVE_PERFETTO, probe, fresh, setter, destroyer, running_,
                 manager, frame_counter, ticker_needs_reset, frame_counter_render,
                 idle_tracker, is_placebo_mode, queue_, failsafe_triggered, clock,
                 render, worker, hist>>

\* manager.Reset(); the lock is released at the end of the block
T_Reset ==
  /\ tick.pc = "reset"
  /\ \E u \in UninitValues : manager' = Reset(manager, u)
  /\ global_lock' = "free"
  /\ tick' = [tick EXCEPT !.pc = "read_now"]
  /\ hist' = [hist EXCEPT !.end_calls = 0, !.begun = {},
                          !.gwt_calls = [f \in FrameIds |-> 0]]
  /\ UNCHANGED <<LATENCYFLEX_HAVE_PERFETTO, probe, fresh, setter, destroyer, running_,
                 frame_counter, ticker_needs_reset, frame_counter_render,
                 idle_tracker, is_placebo_mode, queue_, failsafe_triggered, clock,
                 render, worker>>

\* uint64_t now = current_time_ns()
T_ReadNow ==
  /\ tick.pc = "read_now"
  /\ tick' = [tick EXCEPT !.pc = "target_lock", !.now = clock]
  /\ UNCHANGED <<LATENCYFLEX_HAVE_PERFETTO, probe, fresh, setter, destroyer, running_,
                 manager, frame_counter, ticker_needs_reset, frame_counter_render,
                 idle_tracker, is_placebo_mode, global_lock, queue_,
                 failsafe_triggered, clock, render, worker, hist>>

\* scoped_lock l(global_lock), before manager.GetWaitTarget
T_TargetLock ==
  /\ tick.pc = "target_lock"
  /\ global_lock = "free"
  /\ global_lock' = "tick"
  /\ tick' = [tick EXCEPT !.pc = "get_target"]
  /\ UNCHANGED <<LATENCYFLEX_HAVE_PERFETTO, probe, fresh, setter, destroyer, running_,
                 manager, frame_counter, ticker_needs_reset, frame_counter_render,
                 idle_tracker, is_placebo_mode, queue_, failsafe_triggered, clock,
                 render, worker, hist>>

\* a GetWaitTarget block whose scoped_lock lives on past the block
T_GetWaitTarget_KeepsLock ==
  /\ tick.pc = "get_target"
  /\ LET r == GetWaitTarget(manager, tick.frame_counter_local)
     IN /\ manager' = r.m
        /\ tick' = [tick EXCEPT !.pc = "failsafe", !.target = r.target,
                                !.ends_seen = hist.end_calls]
  /\ hist' = [hist EXCEPT !.gwt_calls[tick.frame_counter_local] = @ + 1]
  /\ UNCHANGED <<LATENCYFLEX_HAVE_PERFETTO, probe, fresh, setter, destroyer, running_,
                 frame_counter, ticker_needs_reset, frame_counter_render,
                 idle_tracker, is_placebo_mode, queue_, failsafe_triggered, clock,
                 render, worker, global_lock>>

\* target = manager.GetWaitTarget(frame_counter_local)
T_GetWaitTarget ==
  /\ tick.pc = "get_target"
  /\ LET r == GetWaitTarget(manager, tick.frame_counter_local)
     IN /\ manager' = r.m
        /\ tick' = [tick EXCEPT !.pc = "failsafe", !.target = r.target,
                                !.ends_seen = hist.end_calls]
  /\ global_lock' = "free"
  /\ hist' = [hist EXCEPT !.gwt_calls[tick.frame_counter_local] = @ + 1]
  /\ UNCHANGED <<LATENCYFLEX_HAVE_PERFETTO, probe, fresh, setter, destroyer, running_,
                 frame_counter, ticker_needs_reset, frame_counter_render,
                 idle_tracker, is_placebo_mode, queue_, failsafe_triggered, clock,
                 render, worker>>

\* a test of the sleeping branch that leaves is_placebo_mode out
SleepsUntilTarget_NoPlacebo(placebo, target, now) == target > now

\* if (!is_placebo_mode && target > now): the branch that sleeps until wakeup
SleepsUntilTarget(placebo, target, now) == ~placebo /\ target > now

\* a failsafe horizon of 100 ms
Failsafe_Long(now) == now + 2 * kFailsafe

\* uint64_t failsafe = now + UINT64_C(50000000)
Failsafe(now) == now + kFailsafe

\* if (target > failsafe): the sleep is clamped
Clamped(target, now) == target > Failsafe(now)

\* the failsafe block of lines 488-509 up to the call of SleepAndBegin: it
\* chooses wakeup and the duration handed to SleepAndBegin, counts
\* failsafe_triggered and may store ticker_needs_reset
T_Failsafe ==
  /\ tick.pc = "failsafe"
  /\ IF SleepsUntilTarget(is_placebo_mode, tick.target, tick.now)
     THEN IF Clamped(tick.target, tick.now)
          THEN /\ failsafe_triggered' = failsafe_triggered + 1
               /\ ticker_needs_reset' = (ticker_needs_reset \/ failsafe_triggered + 1 > 5)
               /\ tick' = [tick EXCEPT !.pc = "sleep_enter",
                                       !.wakeup = Failsafe(tick.now),
                                       !.dur = Failsafe(tick.now) - tick.now,
                                       !.clamped = TRUE]
               /\ hist' = [hist EXCEPT !.consecutive_clamps = @ + 1]
          ELSE /\ failsafe_triggered' = 0
               /\ ticker_needs_reset' = ticker_needs_reset
               /\ tick' = [tick EXCEPT !.pc = "sleep_enter",
                                       !.wakeup = tick.target,
                                       !.dur = tick.target - tick.now]
               /\ hist' = [hist EXCEPT !.consecutive_clamps = 0]
     ELSE /\ failsafe_triggered' = failsafe_triggered
          /\ ticker_needs_reset' = ticker_needs_reset
          /\ tick' = [tick EXCEPT !.pc = "sleep_enter", !.wakeup = tick.now, !.dur = 0]
          /\ hist' = [hist EXCEPT !.consecutive_clamps = 0]
  /\ UNCHANGED <<LATENCYFLEX_HAVE_PERFETTO, probe, fresh, setter, destroyer, running_,
                 manager, frame_counter, frame_counter_render, idle_tracker,
                 is_placebo_mode, global_lock, queue_, clock, render, worker>>

(***************************************************************************)
(* IdleTracker                                                             *)
(***************************************************************************)
\* the predicate of cv.wait_for: no frame is in flight
Idle(it) == it.last_began_frame = it.last_finished_frame

\* bool skipped = cv.wait_for(l, dur, pred); return !skipped
SleepResult(skipped) == ~skipped

\* a call that keeps the planned wakeup whatever SleepAndBegin returns
WakeupAfter_Planned(t, slept, time) == t.wakeup

\* what lfx_WaitAndBeginFrame makes of SleepAndBegin's result: in the sleeping
\* branch a false result replaces wakeup by current_time_ns()
WakeupAfter(t, slept, time) ==
  IF SleepsUntilTarget(is_placebo_mode, t.target, t.now) /\ ~slept THEN time ELSE t.wakeup

\* SleepAndBegin finds the predicate true on entry: wait_for returns true at
\* once, last_began_frame = frame, the result is false
T_SleepSkipped ==
  /\ tick.pc = "sleep_enter"
  /\ Idle(idle_tracker)
  /\ idle_tracker' = [idle_tracker EXCEPT !.last_began_frame = tick.frame_counter_local]
  /\ tick' = [tick EXCEPT !.pc = "begin_lock",
                          !.wakeup = WakeupAfter(tick, SleepResult(TRUE), clock),
                          !.sleep_result = ToString(SleepResult(TRUE))]
  /\ UNCHANGED <<LATENCYFLEX_HAVE_PERFETTO, probe, fresh, setter, destroyer, running_,
                 manager, frame_counter, ticker_needs_reset, frame_counter_render,
                 is_placebo_mode, global_lock, queue_, failsafe_triggered, clock,
                 render, worker, hist>>

\* SleepAndBegin finds the predicate false on entry: the thread waits on cv
\* until notified or until dur has passed
T_SleepWait ==
  /\ tick.pc = "sleep_enter"
  /\ ~Idle(idle_tracker)
  /\ tick' = [tick EXCEPT !.pc = "sleeping", !.deadline = clock + tick.dur]
  /\ hist' = [hist EXCEPT !.ended_while_waiting = FALSE]
  /\ UNCHANGED <<LATENCYFLEX_HAVE_PERFETTO, probe, fresh, setter, destroyer, running_,
                 manager, frame_counter, ticker_needs_reset, frame_counter_render,
                 idle_tracker, is_placebo_mode, global_lock, queue_,
                 failsafe_triggered, clock, render, worker>>

\* the waiting thread wakes and finds the predicate true (End has notified):
\* the result is false
T_SleepNotified ==
  /\ tick.pc = "sleeping"
  /\ Idle(idle_tracker)
  /\ idle_tracker' = [idle_tracker EXCEPT !.last_began_frame = tick.frame_counter_local]
  /\ tick' = [tick EXCEPT !.pc = "begin_lock",
                          !.wakeup = WakeupAfter(tick, SleepResult(TRUE), clock),
                          !.sleep_result = ToString(SleepResult(TRUE)),
                          !.slept = @ + Min(clock - (tick.deadline - tick.dur), tick.dur)]
  /\ UNCHANGED <<LATENCYFLEX_HAVE_PERFETTO, probe, fresh, setter, destroyer, running_,
                 manager, frame_counter, ticker_needs_reset, frame_counter_render,
                 is_placebo_mode, global_lock, queue_, failsafe_triggered, clock,
                 render, worker, hist>>

\* the wait times out with the predicate still false: the time is then at
\* least the deadline, the result is true
T_SleepTimeout ==
  /\ tick.pc = "sleeping"
  /\ ~Idle(idle_tracker)
  /\ clock' = Max(clock, tick.deadline)
  /\ idle_tracker' = [idle_tracker EXCEPT !.last_began_frame = tick.frame_counter_local]
  /\ tick' = [tick EXCEPT !.pc = "begin_lock",
                          !.wakeup = WakeupAfter(tick, SleepResult(FALSE),
                                                 Max(clock, tick.deadline)),
                          !.sleep_result = ToString(SleepResult(FALSE)),
                          !.slept = @ + tick.dur]
  /\ UNCHANGED <<LATENCYFLEX_HAVE_PERFETTO, probe, fresh, setter, destroyer, running_,
                 manager, frame_counter, ticker_needs_reset, frame_counter_render,
                 is_placebo_mode, global_lock, queue_, failsafe_triggered,
                 render, worker, hist>>

\* scoped_lock l(global_lock), before manager.BeginFrame
T_BeginLock ==
  /\ tick.pc = "begin_lock"
  /\ global_lock = "free"
  /\ global_lock' = "tick"
  /\ tick' = [tick EXCEPT !.pc = "begin_frame"]
  /\ UNCHANGED <<LATENCYFLEX_HAVE_PERFETTO, probe, fresh, setter, destroyer, running_,
                 manager, frame_counter, ticker_needs_reset, frame_counter_render,
                 idle_tracker, is_placebo_mode, queue_, failsafe_triggered, clock,
                 render, worker, hist>>

\* manager.BeginFrame(frame_counter_local, target, wakeup): the pacer of
\* latencyflex.h takes the frame id and the timestamp, which is wakeup
T_BeginFrame ==
  /\ tick.pc = "begin_frame"
  /\ manager' = BeginFrame(manager, tick.frame_counter_local, tick.wakeup)
  /\ global_lock' = "free"
  /\ tick' = TickIdle
  /\ hist' = [hist EXCEPT !.begun = @ \cup {tick.frame_counter_local}]
  /\ UNCHANGED <<LATENCYFLEX_HAVE_PERFETTO, probe, fresh, setter, destroyer, running_,
                 frame_counter, ticker_needs_reset, frame_counter_render,
                 idle_tracker, is_placebo_mode, queue_, failsafe_triggered, clock,
                 render, worker>>

(***************************************************************************)
(* lfx_AcquireNextImageKHR / lfx_AcquireNextImage2KHR, on the render thread *)
(***************************************************************************)
\* std::unique_lock l(global_lock); the dispatch table is looked up
R_AcquireLock ==
  /\ render.pc = "idle"
  /\ global_lock = "free"
  /\ global_lock' = "render"
  /\ render' = [render EXCEPT !.pc = "acquire_locked"]
  /\ hist' = [hist EXCEPT !.acquires = @ + 1]
  /\ UNCHANGED <<LATENCYFLEX_HAVE_PERFETTO, probe, fresh, setter, destroyer, running_,
                 manager, frame_counter, ticker_needs_reset, frame_counter_render,
                 idle_tracker, is_placebo_mode, queue_, failsafe_triggered, clock,
                 tick, worker>>

\* l.unlock()
R_AcquireUnlock ==
  /\ render.pc = "acquire_locked"
  /\ global_lock' = "free"
  /\ render' = [render EXCEPT !.pc = "acquire_call"]
  /\ UNCHANGED <<LATENCYFLEX_HAVE_PERFETTO, probe, fresh, setter, destroyer, running_,
                 manager, frame_counter, ticker_needs_reset, frame_counter_render,
                 idle_tracker, is_placebo_mode, queue_, failsafe_triggered, clock,
                 tick, worker, hist>>

\* an intercept that takes every result but VK_SUCCESS as an error
AcquireFailed_NotSuccess(res) == res # 0

\* if (res < 0): an error has occurred
AcquireFailed(res) == res < 0

\* return res
AcquireReturn(res) == res

\* the next layer's acquire returns res; the intercept stores
\* ticker_needs_reset on an error and returns
R_AcquireCall(res) ==
  /\ render.pc = "acquire_call"
  /\ ticker_needs_reset' = (ticker_needs_reset \/ AcquireFailed(res))
  /\ render' = [render EXCEPT !.pc = "acquire_return", !.res = res,
                              !.ret = AcquireReturn(res)]
  /\ hist' = [hist EXCEPT !.acquire_error_pending =
                             IF res < 0 /\ tick.pc = "idle" THEN TRUE ELSE @,
                          !.error_since_store =
                             IF res < 0 /\ tick.pc = "clear_flag" THEN TRUE ELSE @]
  /\ UNCHANGED <<LATENCYFLEX_HAVE_PERFETTO, probe, fresh, setter, destroyer, running_,
                 manager, frame_counter, frame_counter_render, idle_tracker,
                 is_placebo_mode, global_lock, queue_, failsafe_triggered, clock,
                 tick, worker>>

\* the intercept has returned render.ret to the application
R_AcquireDone ==
  /\ render.pc = "acquire_return"
  /\ render' = RenderIdle
  /\ UNCHANGED <<LATENCYFLEX_HAVE_PERFETTO, probe, fresh, setter, destroyer, running_,
                 manager, frame_counter, ticker_needs_reset, frame_counter_render,
                 idle_tracker, is_placebo_mode, global_lock, queue_,
                 failsafe_triggered, clock, tick, worker, hist>>

(***************************************************************************)
(* lfx_QueuePresentKHR, on the render thread                               *)
(***************************************************************************)
\* frame_counter_render++
R_Increment ==
  /\ render.pc = "idle"
  /\ frame_counter_render' = frame_counter_render + 1
  /\ render' = [render EXCEPT !.pc = "load_counter",
                              !.incremented = frame_counter_render + 1]
  /\ hist' = [hist EXCEPT !.presents = @ + 1]
  /\ UNCHANGED <<LATENCYFLEX_HAVE_PERFETTO, probe, fresh, setter, destroyer, running_,
                 manager, frame_counter, ticker_needs_reset, idle_tracker,
                 is_placebo_mode, global_lock, queue_, failsafe_triggered, clock,
                 tick, worker>>

\* frame_counter_local = frame_counter.load()
R_LoadCounter ==
  /\ render.pc = "load_counter"
  /\ render' = [render EXCEPT !.pc = "load_render", !.frame_counter_local = frame_counter]
  /\ UNCHANGED <<LATENCYFLEX_HAVE_PERFETTO, probe, fresh, setter, destroyer, running_,
                 manager, frame_counter, ticker_needs_reset, frame_counter_render,
                 idle_tracker, is_placebo_mode, global_lock, queue_,
                 failsafe_triggered, clock, tick, worker, hist>>

\* frame_counter_render_local = frame_counter_render.load()
R_LoadRender ==
  /\ render.pc = "load_render"
  /\ render' = [render EXCEPT !.pc = "drift",
                              !.frame_counter_render_local = frame_counter_render]
  /\ UNCHANGED <<LATENCYFLEX_HAVE_PERFETTO, probe, fresh, setter, destroyer, running_,
                 manager, frame_counter, ticker_needs_reset, frame_counter_render,
                 idle_tracker, is_placebo_mode, global_lock, queue_,
                 failsafe_triggered, clock, tick, worker, hist>>

\* the test with >= in place of >
Drifted_AtLeast(frame_counter_local, frame_counter_render_local) ==
  frame_counter_local >= frame_counter_render_local + kMaxFrameDrift

\* the test of line 342
Drifted(frame_counter_local, frame_counter_render_local) ==
  frame_counter_local > frame_counter_render_local + kMaxFrameDrift

\* if (...) ticker_needs_reset.store(true)
R_Drift ==
  /\ render.pc = "drift"
  /\ ticker_needs_reset' =
       (ticker_needs_reset \/
        Drifted(render.frame_counter_local, render.frame_counter_render_local))
  /\ render' = [render EXCEPT !.pc = "present_lock"]
  /\ hist' = [hist EXCEPT !.drift_pending =
                             IF Drifted(render.frame_counter_local,
                                        render.frame_counter_render_local)
                                /\ tick.pc = "idle"
                             THEN TRUE ELSE @]
  /\ UNCHANGED <<LATENCYFLEX_HAVE_PERFETTO, probe, fresh, setter, destroyer, running_,
                 manager, frame_counter, frame_counter_render, idle_tracker,
                 is_placebo_mode, global_lock, queue_, failsafe_triggered, clock,
                 tick, worker>>

\* std::unique_lock l(global_lock)
R_PresentLock ==
  /\ render.pc = "present_lock"
  /\ global_lock = "free"
  /\ global_lock' = "render"
  /\ render' = [render EXCEPT !.pc = "present_locked"]
  /\ UNCHANGED <<LATENCYFLEX_HAVE_PERFETTO, probe, fresh, setter, destroyer, running_,
                 manager, frame_counter, ticker_needs_reset, frame_counter_render,
                 idle_tracker, is_placebo_mode, queue_, failsafe_triggered, clock,
                 tick, worker, hist>>

\* a Push that puts the sentinel at the front of the queue
Push_Front(q, info) == <<info>> \o q

\* FenceWaitThread::Push
Push(q, info) == Append(q, info)

\* struct PresentInfo, without the device
PresentInfo(fence, frame_id) == [fence |-> fence, frame_id |-> frame_id]

\* VkResult values CreateFence may return: VK_SUCCESS,
\* VK_ERROR_OUT_OF_HOST_MEMORY, VK_ERROR_OUT_OF_DEVICE_MEMORY
CreateFenceResults == {0, 0 - 1, 0 - 2}

\* VkFence fence; CreateFence(..., &fence): the handle is the created fence
\* on success and stays indeterminate on failure; the result is not looked at
Fence(res) == IF res = 0 THEN "created" ELSE "indeterminate"

\* notify_.notify_all(): a worker blocked in notify_.wait goes back to its
\* test of the queue; any other worker is left as it is
Notified(w) == IF w.pc = "cv_wait" THEN [w EXCEPT !.pc = "wait_queue"] ELSE w

\* CreateFence returns res; QueueSubmit of the sentinel, Push, l.unlock().
\* Push takes local_lock_, which the worker holds between its test of the
\* queue and its notify_.wait, appends and notifies
R_PushFence(res) ==
  /\ render.pc = "present_locked"
  /\ worker.pc # "checked"
  /\ queue_' = Push(queue_, PresentInfo(Fence(res), render.frame_counter_render_local))
  /\ worker' = Notified(worker)
  /\ global_lock' = "free"
  /\ render' = [render EXCEPT !.pc = "present_call", !.create_res = res]
  /\ hist' = [hist EXCEPT !.pushed = Append(@, render.frame_counter_render_local)]
  /\ UNCHANGED <<LATENCYFLEX_HAVE_PERFETTO, probe, fresh, setter, destroyer, running_,
                 manager, frame_counter, ticker_needs_reset, frame_counter_render,
                 idle_tracker, is_placebo_mode, failsafe_triggered, clock,
                 tick>>

\* the same with a CreateFence that succeeds
R_Push == R_PushFence(0)

\* return dispatch.QueuePresentKHR(queue, pPresentInfo)
R_PresentCall ==
  /\ render.pc = "present_call"
  /\ render' = RenderIdle
  /\ UNCHANGED <<LATENCYFLEX_HAVE_PERFETTO, probe, fresh, setter, destroyer, running_,
                 manager, frame_counter, ticker_needs_reset, frame_counter_render,
                 idle_tracker, is_placebo_mode, global_lock, queue_,
                 failsafe_triggered, clock, tick, worker, hist>>

(***************************************************************************)
(* FenceWaitThread::Worker                                                 *)
(***************************************************************************)
\* the queue is not empty: info = queue_.front(); queue_.pop_front()
W_Dequeue ==
  /\ worker.pc = "wait_queue"
  /\ queue_ # <<>>
  /\ worker' = [worker EXCEPT !.pc = "wait_fence", !.fence = Head(queue_).fence,
                              !.frame_id = Head(queue_).frame_id]
  /\ queue_' = Tail(queue_)
  /\ UNCHANGED <<LATENCYFLEX_HAVE_PERFETTO, probe, fresh, setter, destroyer, running_,
                 manager, frame_counter, ticker_needs_reset, frame_counter_render,
                 idle_tracker, is_placebo_mode, global_lock, failsafe_triggered,
                 clock, tick, render, hist>>

\* WaitForFences returns (what it does with an indeterminate handle is not
\* defined: it may return, as here, or never); complete = current_time_ns();
\* DestroyFence
W_FenceSignaled ==
  /\ worker.pc = "wait_fence"
  /\ worker' = [worker EXCEPT !.pc = "end_lock", !.complete = clock]
  /\ UNCHANGED <<LATENCYFLEX_HAVE_PERFETTO, probe, fresh, setter, destroyer, running_,
                 manager, frame_counter, ticker_needs_reset, frame_counter_render,
                 idle_tracker, is_placebo_mode, global_lock, queue_,
                 failsafe_triggered, clock, tick, render, hist>>

\* scoped_lock l(global_lock)
W_EndLock ==
  /\ worker.pc = "end_lock"
  /\ global_lock = "free"
  /\ global_lock' = "worker"
  /\ worker' = [worker EXCEPT !.pc = "end_frame"]
  /\ UNCHANGED <<LATENCYFLEX_HAVE_PERFETTO, probe, fresh, setter, destroyer, running_,
                 manager, frame_counter, ticker_needs_reset, frame_counter_render,
                 idle_tracker, is_placebo_mode, queue_, failsafe_triggered, clock,
                 tick, render, hist>>

\* manager.EndFrame(info.frame_id, complete, &latency, nullptr)
W_EndFrame ==
  /\ worker.pc = "end_frame"
  /\ LET r == EndFrame(manager, worker.frame_id, worker.complete)
     IN /\ manager' = r.m
        /\ worker' = [worker EXCEPT !.pc = "idle_end", !.latency = r.latency]
        /\ hist' = [hist EXCEPT !.end_calls = 1,
                                !.end_frames = Append(@, worker.frame_id),
                                !.stale_upto = IF Len(hist.end_frames) + 1 < @
                                               THEN @ ELSE 0]
  /\ global_lock' = "free"
  /\ UNCHANGED <<LATENCYFLEX_HAVE_PERFETTO, probe, fresh, setter, destroyer, running_,
                 frame_counter, ticker_needs_reset, frame_counter_render,
                 idle_tracker, is_placebo_mode, queue_, failsafe_triggered, clock,
                 tick, render>>

\* IdleTracker::End(frame)
End(it, frame) == [it EXCEPT !.last_finished_frame = frame]

\* idle_tracker.End(info.frame_id); the overlay is told the latency
W_IdleEnd ==
  /\ worker.pc = "idle_end"
  /\ idle_tracker' = End(idle_tracker, worker.frame_id)
  /\ worker' = WorkerIdle
  /\ hist' = [hist EXCEPT !.ended_while_waiting =
                             IF tick.pc = "sleeping"
                                /\ worker.frame_id = idle_tracker.last_began_frame
                             THEN TRUE ELSE @,
                           !.ends = Append(@, worker.frame_id)]
  /\ UNCHANGED <<LATENCYFLEX_HAVE_PERFETTO, probe, fresh, setter, destroyer, running_,
                 manager, frame_counter, ticker_needs_reset, frame_counter_render,
                 is_placebo_mode, global_lock, queue_, failsafe_triggered, clock,
                 tick, render>>

\* the queue is empty and running_ is false: return
W_Exit ==
  /\ worker.pc = "wait_queue"
  /\ queue_ = <<>>
  /\ ~running_
  /\ worker' = [worker EXCEPT !.pc = "exited"]
  /\ UNCHANGED <<LATENCYFLEX_HAVE_PERFETTO, probe, fresh, setter, destroyer, running_,
                 manager, frame_counter, ticker_needs_reset, frame_counter_render,
                 idle_tracker, is_placebo_mode, global_lock, queue_,
                 failsafe_triggered, clock, tick, render, hist>>

\* the queue is empty and the worker reads running_ as true: it goes on to
\* notify_.wait(l), still holding local_lock_
W_CheckRunning ==
  /\ worker.pc = "wait_queue"
  /\ queue_ = <<>>
  /\ running_
  /\ worker' = [worker EXCEPT !.pc = "checked"]
  /\ UNCHANGED <<LATENCYFLEX_HAVE_PERFETTO, probe, fresh, setter, destroyer, running_,
                 manager, frame_counter, ticker_needs_reset, frame_counter_render,
                 idle_tracker, is_placebo_mode, global_lock, queue_,
                 failsafe_triggered, clock, tick, render, hist>>

\* notify_.wait(l): the worker blocks until a later notify_all
W_Wait ==
  /\ worker.pc = "checked"
  /\ worker' = [worker EXCEPT !.pc = "cv_wait"]
  /\ UNCHANGED <<LATENCYFLEX_HAVE_PERFETTO, probe, fresh, setter, destroyer, running_,
                 manager, frame_counter, ticker_needs_reset, frame_counter_render,
                 idle_tracker, is_placebo_mode, global_lock, queue_,
                 failsafe_triggered, clock, tick, render, hist>>

\* notify_.wait(l) returns without a notification, as a condition variable
\* may: the worker tests the queue again
W_SpuriousWake ==
  /\ worker.pc = "cv_wait"
  /\ worker' = [worker EXCEPT !.pc = "wait_queue"]
  /\ UNCHANGED <<LATENCYFLEX_HAVE_PERFETTO, probe, fresh, setter, destroyer, running_,
                 manager, frame_counter, ticker_needs_reset, frame_counter_render,
                 idle_tracker, is_placebo_mode, global_lock, queue_,
                 failsafe_triggered, clock, tick, render, hist>>

(***************************************************************************)
(* lfx_DestroyDevice, on a thread of the application                       *)
(***************************************************************************)
\* the application calls lfx_DestroyDevice(device, pAllocator)
D_Call ==
  /\ destroyer.pc = "idle"
  /\ destroyer' = [destroyer EXCEPT !.pc = "lock"]
  /\ UNCHANGED <<LATENCYFLEX_HAVE_PERFETTO, probe, fresh, setter, running_,
                 manager, frame_counter, ticker_needs_reset, frame_counter_render,
                 idle_tracker, is_placebo_mode, global_lock, queue_,
                 failsafe_triggered, clock, tick, render, worker, hist>>

\* scoped_lock l(global_lock)
D_Lock ==
  /\ destroyer.pc = "lock"
  /\ global_lock = "free"
  /\ global_lock' = "destroyer"
  /\ destroyer' = [destroyer EXCEPT !.pc = "erase_thread"]
  /\ UNCHANGED <<LATENCYFLEX_HAVE_PERFETTO, probe, fresh, setter, running_,
                 manager, frame_counter, ticker_needs_reset, frame_counter_render,
                 idle_tracker, is_placebo_mode, queue_, failsafe_triggered, clock,
                 tick, render, worker, hist>>

\* wait_threads.erase(GetKey(device)) runs ~FenceWaitThread: running_ = false,
\* written without local_lock_; notify_.notify_all() wakes the worker if it
\* waits in notify_.wait at this moment
D_Stop ==
  /\ destroyer.pc = "erase_thread"
  /\ running_' = FALSE
  /\ worker' = Notified(worker)
  /\ destroyer' = [destroyer EXCEPT !.pc = "join"]
  /\ UNCHANGED <<LATENCYFLEX_HAVE_PERFETTO, probe, fresh, setter,
                 manager, frame_counter, ticker_needs_reset, frame_counter_render,
                 idle_tracker, is_placebo_mode, global_lock, queue_,
                 failsafe_triggered, clock, tick, render, hist>>

\* thread_.join() returns: Worker has returned
D_Join ==
  /\ destroyer.pc = "join"
  /\ worker.pc = "exited"
  /\ destroyer' = [destroyer EXCEPT !.pc = "erase_dispatch"]
  /\ UNCHANGED <<LATENCYFLEX_HAVE_PERFETTO, probe, fresh, setter, running_,
                 manager, frame_counter, ticker_needs_reset, frame_counter_render,
                 idle_tracker, is_placebo_mode, global_lock, queue_,
                 failsafe_triggered, clock, tick, render, worker, hist>>

\* the next layer's DestroyDevice; device_dispatch.erase; device_map.erase;
\* the lock is released on return
D_Erase ==
  /\ destroyer.pc = "erase_dispatch"
  /\ global_lock' = "free"
  /\ destroyer' = [pc |-> "done", device_dispatch |-> FALSE]
  /\ UNCHANGED <<LATENCYFLEX_HAVE_PERFETTO, probe, fresh, setter, running_,
                 manager, frame_counter, ticker_needs_reset, frame_counter_render,
                 idle_tracker, is_placebo_mode, queue_, failsafe_triggered, clock,
                 tick, render, worker, hist>>

\* the steps inside lfx_DestroyDevice
DestroySteps == D_Lock \/ D_Stop \/ D_Join \/ D_Erase

(***************************************************************************)
(* lfx_SetTargetFrameTime, on a thread of the application                  *)
(***************************************************************************)
\* the arguments the application passes: 0 (no limit) or a frame time
TargetFrameTimes == {0, TargetFrameTime}

\* the application calls lfx_SetTargetFrameTime(target_frame_time)
S_Call(target_frame_time) ==
  /\ setter.pc = "idle"
  /\ setter' = [pc |-> "lock", target_frame_time |-> target_frame_time]
  /\ hist' = [hist EXCEPT !.sets = @ + 1]
  /\ UNCHANGED <<LATENCYFLEX_HAVE_PERFETTO, probe, fresh, destroyer, running_,
                 manager, frame_counter, ticker_needs_reset, frame_counter_render,
                 idle_tracker, is_placebo_mode, global_lock, queue_,
                 failsafe_triggered, clock, tick, render, worker>>

\* scoped_lock l(global_lock)
S_Lock ==
  /\ setter.pc = "lock"
  /\ global_lock = "free"
  /\ global_lock' = "setter"
  /\ setter' = [setter EXCEPT !.pc = "write"]
  /\ UNCHANGED <<LATENCYFLEX_HAVE_PERFETTO, probe, fresh, destroyer, running_,
                 manager, frame_counter, ticker_needs_reset, frame_counter_render,
                 idle_tracker, is_placebo_mode, queue_, failsafe_triggered, clock,
                 tick, render, worker, hist>>

\* manager.target_frame_time = target_frame_time; the lock is released on
\* return
S_Write ==
  /\ setter.pc = "write"
  /\ manager' = [manager EXCEPT !.target_frame_time = setter.target_frame_time]
  /\ global_lock' = "free"
  /\ setter' = SetterIdle
  /\ UNCHANGED <<LATENCYFLEX_HAVE_PERFETTO, probe, fresh, destroyer, running_,
                 frame_counter, ticker_needs_reset, frame_counter_render,
                 idle_tracker, is_placebo_mode, queue_, failsafe_triggered, clock,
                 tick, render, worker, hist>>

(***************************************************************************)
(* The specifications                                                      *)
(***************************************************************************)
\* the steps inside lfx_WaitAndBeginFrame
TickSteps ==
  \/ T_LoadRender \/ T_Check \/ T_RecalSleep \/ T_StoreCounter
  \/ T_StoreRender \/ T_ClearFlag \/ T_ResetLock \/ T_Reset \/ T_ReadNow
  \/ T_TargetLock \/ T_GetWaitTarget \/ T_Failsafe \/ T_SleepSkipped
  \/ T_SleepWait \/ T_SleepNotified \/ T_SleepTimeout \/ T_BeginLock
  \/ T_BeginFrame

\* the steps inside the acquire intercepts
AcquireSteps ==
  \/ R_AcquireUnlock \/ (\E res \in AcquireResults : R_AcquireCall(res))
  \/ R_AcquireDone

\* the steps inside lfx_QueuePresentKHR
PresentSteps ==
  \/ R_LoadCounter \/ R_LoadRender \/ R_Drift \/ R_PresentLock
  \/ R_Push \/ R_PresentCall

WorkerNext ==
  \/ W_Dequeue \/ W_FenceSignaled \/ W_EndLock \/ W_EndFrame \/ W_IdleEnd

\* The application calls lfx_WaitAndBeginFrame from its simulation thread and
\* acquires and presents from its render thread, with no order between the
\* two; the worker runs beside them.  Time passes only while a thread sleeps.
Next ==
  \/ (hist.ticks < MaxTicks /\ T_Increment)
  \/ TickSteps
  \/ (hist.acquires < MaxAcquires /\ R_AcquireLock)
  \/ AcquireSteps
  \/ (hist.presents < MaxPresents /\ R_Increment)
  \/ PresentSteps
  \/ WorkerNext

Spec == Init /\ [][Next]_vars

\* The application is a single-threaded loop: each iteration calls
\* lfx_WaitAndBeginFrame, may acquire an image, and presents.  The worker runs
\* beside it, and time also passes while the worker waits for a fence.
LoopNext ==
  \/ (hist.ticks < LoopTicks /\ hist.presents = hist.ticks /\ render.pc = "idle" /\ T_Increment)
  \/ TickSteps
  \/ (hist.acquires < LoopAcquires /\ hist.presents < hist.ticks /\ tick.pc = "idle"
        /\ R_AcquireLock)
  \/ AcquireSteps
  \/ (hist.presents < hist.ticks /\ tick.pc = "idle" /\ R_Increment)
  \/ PresentSteps
  \/ WorkerNext
  \/ (hist.clock_steps < LoopClockSteps /\ worker.pc = "wait_fence" /\ AdvanceClock)

LoopSpec == Init /\ [][LoopNext]_vars

\* The application starts up: from one thread it presents (a loading screen)
\* and ticks, and its acquires succeed; the worker runs beside it.
StartupNext ==
  \/ (hist.ticks < StartupTicks /\ render.pc = "idle" /\ T_Increment)
  \/ TickSteps
  \/ (hist.presents < StartupPresents /\ tick.pc = "idle" /\ R_Increment)
  \/ PresentSteps
  \/ WorkerNext

StartupSpec == Init /\ [][StartupNext]_vars

\* The application ticks from one thread far more often than it presents: the
\* simulation runs ahead of the presentation.
DriftNext ==
  \/ (hist.ticks < DriftTicks /\ render.pc = "idle" /\ T_Increment)
  \/ TickSteps
  \/ (hist.presents < DriftPresents /\ tick.pc = "idle" /\ R_Increment)
  \/ PresentSteps
  \/ WorkerNext

DriftSpec == Init /\ [][DriftNext]_vars

\* The application ticks and presents from one thread and sets the target
\* frame time from another; the worker runs beside them.
LockNext ==
  \/ (hist.ticks < LockTicks /\ render.pc = "idle" /\ T_Increment)
  \/ TickSteps
  \/ (hist.presents < LockPresents /\ tick.pc = "idle" /\ R_Increment)
  \/ PresentSteps
  \/ WorkerNext
  \/ (hist.sets < LockSets /\ \E t \in TargetFrameTimes : S_Call(t))
  \/ S_Lock
  \/ S_Write

LockSpec == Init /\ [][LockNext]_vars

\* The application ticks and presents from one thread and then destroys the
\* device, after which it makes no call on it; every fence the worker waits
\* for is signalled.
DestroyNext ==
  \/ (hist.ticks < DestroyTicks /\ render.pc = "idle" /\ destroyer.pc = "idle"
        /\ T_Increment)
  \/ TickSteps
  \/ (hist.presents < DestroyPresents /\ tick.pc = "idle" /\ destroyer.pc = "idle"
        /\ R_Increment)
  \/ PresentSteps
  \/ WorkerNext
  \/ W_Exit
  \/ (tick.pc = "idle" /\ render.pc = "idle" /\ D_Call)
  \/ DestroySteps

DestroySpec == Init /\ [][DestroyNext]_vars

\* The application ticks and presents from one thread, and the device may
\* fail to create the sentinel fence of a present.
FenceNext ==
  \/ (hist.ticks < FenceTicks /\ render.pc = "idle" /\ T_Increment)
  \/ TickSteps
  \/ (hist.presents < FencePresents /\ tick.pc = "idle" /\ R_Increment)
  \/ R_LoadCounter \/ R_LoadRender \/ R_Drift \/ R_PresentLock
  \/ (\E res \in CreateFenceResults : R_PushFence(res))
  \/ R_PresentCall
  \/ WorkerNext

FenceSpec == Init /\ [][FenceNext]_vars

\* The application ticks and presents from one thread, lets the worker end
\* every frame it presented, and then destroys the device and makes no call
\* after that.  Up to then the state "wait_queue" stands for the worker's
\* whole wait for a sentinel, which Push ends under local_lock_; from then on
\* the worker's test of running_ and its call of notify_.wait are steps of
\* their own.  Every thread that can run does run in the end.
ShutdownNext ==
  \/ (hist.ticks < ShutdownTicks /\ render.pc = "idle" /\ destroyer.pc = "idle"
        /\ T_Increment)
  \/ TickSteps
  \/ (hist.presents < ShutdownPresents /\ tick.pc = "idle" /\ destroyer.pc = "idle"
        /\ R_Increment)
  \/ PresentSteps
  \/ WorkerNext
  \/ (destroyer.pc # "idle" /\ W_CheckRunning)
  \/ W_Wait
  \/ W_Exit
  \/ (tick.pc = "idle" /\ render.pc = "idle" /\ queue_ = <<>>
        /\ worker.pc = "wait_queue" /\ D_Call)
  \/ DestroySteps

ShutdownSpec ==
  /\ Init
  /\ [][ShutdownNext]_vars
  /\ WF_vars(TickSteps \/ PresentSteps)
  /\ WF_vars(WorkerNext \/ (destroyer.pc # "idle" /\ W_CheckRunning) \/ W_Wait \/ W_Exit)
  /\ WF_vars(DestroySteps)

\* The application ticks and presents from one thread and may then destroy
\* the device, after which it makes no call on it.  The worker's test of the
\* queue, its test of running_ and its notify_.wait are steps of their own,
\* and a wait may end without a notification.  Every fence is signalled,
\* every thread that can run does run in the end, and nothing promises a
\* wake-up that no notification has caused.
WaiterNext ==
  \/ (hist.ticks < WaiterTicks /\ render.pc = "idle" /\ destroyer.pc = "idle"
        /\ T_Increment)
  \/ TickSteps
  \/ (hist.presents < WaiterPresents /\ tick.pc = "idle" /\ destroyer.pc = "idle"
        /\ R_Increment)
  \/ PresentSteps
  \/ WorkerNext
  \/ W_CheckRunning
  \/ W_Wait
  \/ W_SpuriousWake
  \/ W_Exit
  \/ (tick.pc = "idle" /\ render.pc = "idle" /\ D_Call)
  \/ DestroySteps

WaiterSpec ==
  /\ Init
  /\ [][WaiterNext]_vars
  /\ WF_vars(TickSteps \/ PresentSteps)
  /\ WF_vars(WorkerNext \/ W_CheckRunning \/ W_Wait \/ W_Exit)
  /\ WF_vars(DestroySteps)

\* The process is started with LFX_PLACEBO set: OnLoad sets is_placebo_mode.
\* The application runs its loop as in LoopSpec.
PlaceboInit ==
  /\ manager = LatencyFleX(0)
  /\ fresh = LatencyFleX(0)
  /\ probe = Probe(kClampLo)
  /\ LATENCYFLEX_HAVE_PERFETTO = FALSE
  /\ frame_counter = 0
  /\ ticker_needs_reset = FALSE
  /\ frame_counter_render = 0
  /\ idle_tracker = [last_began_frame |-> UINT64_MAX, last_finished_frame |-> UINT64_MAX]
  /\ is_placebo_mode = TRUE
  /\ global_lock = "free"
  /\ queue_ = <<>>
  /\ failsafe_triggered = 0
  /\ clock = BootTime
  /\ tick = TickIdle
  /\ render = RenderIdle
  /\ worker = WorkerIdle
  /\ running_ = TRUE
  /\ setter = SetterIdle
  /\ destroyer = DestroyerIdle
  /\ hist = HistInit

PlaceboNext == LoopNext

PlaceboSpec == PlaceboInit /\ [][PlaceboNext]_vars

\* The process is started with or without LFX_PLACEBO, and the application
\* runs its loop: each iteration calls lfx_WaitAndBeginFrame, may acquire an
\* image, and presents.
ModeInit ==
  /\ manager = LatencyFleX(0)
  /\ fresh = LatencyFleX(0)
  /\ probe = Probe(kClampLo)
  /\ LATENCYFLEX_HAVE_PERFETTO = FALSE
  /\ frame_counter = 0
  /\ ticker_needs_reset = FALSE
  /\ frame_counter_render = 0
  /\ idle_tracker = [last_began_frame |-> UINT64_MAX, last_finished_frame |-> UINT64_MAX]
  /\ is_placebo_mode \in BOOLEAN
  /\ global_lock = "free"
  /\ queue_ = <<>>
  /\ failsafe_triggered = 0
  /\ clock = BootTime
  /\ tick = TickIdle
  /\ render = RenderIdle
  /\ worker = WorkerIdle
  /\ running_ = TRUE
  /\ setter = SetterIdle
  /\ destroyer = DestroyerIdle
  /\ hist = HistInit

ModeNext ==
  \/ (hist.ticks < ModeTicks /\ hist.presents = hist.ticks /\ render.pc = "idle" /\ T_Increment)
  \/ TickSteps
  \/ (hist.acquires < ModeAcquires /\ hist.presents < hist.ticks /\ tick.pc = "idle"
        /\ R_AcquireLock)
  \/ AcquireSteps
  \/ (hist.presents < hist.ticks /\ tick.pc = "idle" /\ R_Increment)
  \/ PresentSteps
  \/ WorkerNext
  \/ (hist.clock_steps < ModeClockSteps /\ worker.pc = "wait_fence" /\ AdvanceClock)

ModeSpec == ModeInit /\ [][ModeNext]_vars

(***************************************************************************)
(* A program that uses one estimator alone                                 *)
(***************************************************************************)
\* the values EndFrame feeds to an estimator, in ms
EwmaValues == kClampLo .. kClampHi

\* probe.update(value)
E_Update ==
  /\ probe.updates < MaxUpdates
  /\ probe' = [probe EXCEPT !.e = update(@, probe.value), !.updates = @ + 1]
  /\ UNCHANGED <<LATENCYFLEX_HAVE_PERFETTO, fresh, setter, destroyer, running_,
                 manager, frame_counter, ticker_needs_reset, frame_counter_render,
                 idle_tracker, is_placebo_mode, global_lock, queue_,
                 failsafe_triggered, clock, tick, render, worker, hist>>

EwmaInit ==
  /\ manager = LatencyFleX(0)
  /\ fresh = LatencyFleX(0)
  /\ \E value \in EwmaValues : probe = Probe(value)
  /\ LATENCYFLEX_HAVE_PERFETTO = FALSE
  /\ frame_counter = 0
  /\ ticker_needs_reset = FALSE
  /\ frame_counter_render = 0
  /\ idle_tracker = [last_began_frame |-> UINT64_MAX, last_finished_frame |-> UINT64_MAX]
  /\ is_placebo_mode = FALSE
  /\ global_lock = "free"
  /\ queue_ = <<>>
  /\ failsafe_triggered = 0
  /\ clock = BootTime
  /\ tick = TickIdle
  /\ render = RenderIdle
  /\ worker = WorkerIdle
  /\ running_ = TRUE
  /\ setter = SetterIdle
  /\ destroyer = DestroyerIdle
  /\ hist = HistInit

EwmaNext == E_Update

EwmaSpec == EwmaInit /\ [][EwmaNext]_vars

(***************************************************************************)
(* A program that uses the pacer alone                                     *)
(***************************************************************************)
\* The program keeps two pacers, manager and fresh, makes every call on
\* both, and where it resets manager it constructs fresh anew with manager's
\* target_frame_time.
PacerFrames == 1 .. MaxPacerFrame

Called(op, ret, fresh_ret) ==
  [hist EXCEPT !.ops = @ + 1, !.last_op = op, !.ret = ret, !.fresh_ret = fresh_ret,
               !.agree = @ /\ ret = fresh_ret,
               !.resets_in_row = IF op = "Reset" THEN @ + 1 ELSE 0]

PacerUnchanged ==
  UNCHANGED <<LATENCYFLEX_HAVE_PERFETTO, probe, setter, destroyer, running_,
              frame_counter, ticker_needs_reset, frame_counter_render,
              idle_tracker, is_placebo_mode, global_lock, queue_,
              failsafe_triggered, clock, tick, render, worker>>

\* manager.target_frame_time = target_frame_time
P_SetTargetFrameTime(target_frame_time) ==
  /\ manager' = [manager EXCEPT !.target_frame_time = target_frame_time]
  /\ fresh' = [fresh EXCEPT !.target_frame_time = target_frame_time]
  /\ hist' = Called("SetTargetFrameTime", <<>>, <<>>)
  /\ PacerUnchanged

\* manager.GetWaitTarget(frame_id)
P_GetWaitTarget(frame_id) ==
  LET g == GetWaitTarget(manager, frame_id)
      f == GetWaitTarget(fresh, frame_id)
  IN /\ manager' = g.m
     /\ fresh' = f.m
     /\ hist' = [Called("GetWaitTarget", <<g.target>>, <<f.target>>)
                   EXCEPT !.frame_id = frame_id,
                          !.comp_applied[frame_id % kMaxInflightFrames] =
                            IF manager.prev_frame_end_id_ # UINT64_MAX
                            THEN Trunc(Max(get(g.m.proj_correction_), 0))
                            ELSE @]
     /\ PacerUnchanged

\* manager.BeginFrame(frame_id, current time)
P_BeginFrame(frame_id) ==
  /\ manager' = BeginFrame(manager, frame_id, clock)
  /\ fresh' = BeginFrame(fresh, frame_id, clock)
  /\ hist' = [Called("BeginFrame", <<>>, <<>>) EXCEPT !.frame_id = frame_id]
  /\ PacerUnchanged

\* manager.EndFrame(frame_id, current time, &latency, &frame_time)
P_EndFrame(frame_id) ==
  LET e == EndFrame(manager, frame_id, clock)
      f == EndFrame(fresh, frame_id, clock)
  IN /\ manager' = e.m
     /\ fresh' = f.m
     /\ hist' = [Called("EndFrame", <<e.latency, e.frame_time>>,
                        <<f.latency, f.frame_time>>)
                   EXCEPT !.frame_id = frame_id]
     /\ PacerUnchanged

\* manager.Reset(), and fresh = LatencyFleX() with manager's target_frame_time
P_Reset ==
  /\ \E u \in UninitValues : manager' = Reset(manager, u)
  /\ \E u \in UninitValues :
       fresh' = [LatencyFleX(u) EXCEPT !.target_frame_time = manager.target_frame_time]
  /\ hist' = [Called("Reset", <<>>, <<>>) EXCEPT
                !.reset_used = manager.prev_frame_end_id_ # UINT64_MAX]
  /\ PacerUnchanged

\* time passes between two calls
P_Advance ==
  /\ hist.clock_steps < PacerClockSteps
  /\ clock' = clock + ClockStep
  /\ hist' = [hist EXCEPT !.clock_steps = @ + 1]
  /\ UNCHANGED <<LATENCYFLEX_HAVE_PERFETTO, probe, fresh, setter, destroyer, running_,
                 manager, frame_counter, ticker_needs_reset, frame_counter_render,
                 idle_tracker, is_placebo_mode, global_lock, queue_,
                 failsafe_triggered, tick, render, worker>>

\* the build may trace or not
PacerInit ==
  /\ manager = LatencyFleX(0)
  /\ fresh = LatencyFleX(0)
  /\ probe = Probe(kClampLo)
  /\ LATENCYFLEX_HAVE_PERFETTO \in BOOLEAN
  /\ frame_counter = 0
  /\ ticker_needs_reset = FALSE
  /\ frame_counter_render = 0
  /\ idle_tracker = [last_began_frame |-> UINT64_MAX, last_finished_frame |-> UINT64_MAX]
  /\ is_placebo_mode = FALSE
  /\ global_lock = "free"
  /\ queue_ = <<>>
  /\ failsafe_triggered = 0
  /\ clock = BootTime
  /\ tick = TickIdle
  /\ render = RenderIdle
  /\ worker = WorkerIdle
  /\ running_ = TRUE
  /\ setter = SetterIdle
  /\ destroyer = DestroyerIdle
  /\ hist = HistInit

PacerNext ==
  \/ (hist.ops < PacerOps /\ \E t \in TargetFrameTimes : P_SetTargetFrameTime(t))
  \/ (hist.ops < PacerOps /\ \E f \in PacerFrames : P_GetWaitTarget(f))
  \/ (hist.ops < PacerOps /\ \E f \in PacerFrames : P_BeginFrame(f))
  \/ (hist.ops < PacerOps /\ \E f \in PacerFrames : P_EndFrame(f))
  \/ (hist.ops < PacerOps /\ P_Reset)
  \/ P_Advance

PacerSpec == PacerInit /\ [][PacerNext]_vars


(***************************************************************************)
(* A program that passes any timestamps to the pacer                       *)
(***************************************************************************)
StampOps == 8

\* the timestamps passed: an early one, a late one, and the least int64_t
\* as a uint64_t
Stamps == {0, 60, UINT64_MAX \div 2 + 1}

\* the frames begun and ended: one of each phase
StampFrames == {1, 2}

StampUnchanged ==
  UNCHANGED <<LATENCYFLEX_HAVE_PERFETTO, probe, fresh, setter, destroyer, running_,
              frame_counter, ticker_needs_reset, frame_counter_render,
              idle_tracker, is_placebo_mode, global_lock, queue_,
              failsafe_triggered, clock, tick, render, worker>>

\* manager.BeginFrame(frame_id, timestamp)
K_BeginFrame(frame_id, timestamp) ==
  /\ manager' = BeginFrame(manager, frame_id, timestamp)
  /\ hist' = [hist EXCEPT !.ops = @ + 1, !.last_op = "BeginFrame", !.ret = <<>>,
                          !.frame_id = frame_id, !.consumed = @ \ {frame_id},
                          !.again = FALSE]
  /\ StampUnchanged

\* manager.EndFrame(frame_id, timestamp, &latency, &frame_time)
K_EndFrame(frame_id, timestamp) ==
  LET e == EndFrame(manager, frame_id, timestamp) IN
  /\ manager' = e.m
  /\ hist' = [hist EXCEPT !.ops = @ + 1, !.last_op = "EndFrame",
                          !.ret = <<e.latency, e.frame_time>>,
                          !.frame_id = frame_id, !.stamp = timestamp,
                          !.began = manager.frame_begin_ts_[frame_id % kMaxInflightFrames],
                          !.consumed = IF SlotHolds(manager, frame_id)
                                       THEN @ \cup {frame_id} ELSE @,
                          !.again = frame_id \in hist.consumed]
  /\ StampUnchanged

StampInit == PacerInit

StampNext ==
  \/ (hist.ops < StampOps /\ \E f \in StampFrames : \E t \in Stamps : K_BeginFrame(f, t))
  \/ (hist.ops < StampOps /\ \E f \in StampFrames : \E t \in Stamps : K_EndFrame(f, t))

StampSpec == StampInit /\ [][StampNext]_vars


(***************************************************************************)
(* Properties                                                              *)
(***************************************************************************)
\* C1: from construction or Reset() until the first EndFrame call,
\* GetWaitTarget(f) returns 0 for every frame id f and leaves the pacer as it
\* is, however many GetWaitTarget and BeginFrame calls have been made.
C1_WaitTargetZeroBeforeFirstEnd ==
  hist.end_calls = 0 =>
    \A f \in FrameIds : GetWaitTarget(manager, f) = [m |-> manager, target |-> 0]

\* C1, the case: lfx_WaitAndBeginFrame has got the wait target 0 of a frame
\* after BeginFrame of an earlier frame and before any EndFrame call
C1_Witness ==
  /\ tick.pc = "failsafe"
  /\ hist.end_calls = 0
  /\ hist.begun # {}
  /\ tick.frame_counter_local \notin hist.begun
  /\ tick.target = 0

\* C2: an EndFrame(f, ts) that finds the slot f mod 16 not holding f changes
\* nothing of the pacer (slot ids, begin timestamps, prev_frame_end_id_,
\* prev_frame_end_ts_, estimators) and reports latency and frame time as
\* UINT64_MAX.
C2_EndFrameOfUnknownFrameIsNoOp ==
  [][(/\ worker.pc = "end_frame"
      /\ worker'.pc = "idle_end"
      /\ manager.frame_begin_ids_[worker.frame_id % kMaxInflightFrames] # worker.frame_id)
     => (/\ manager' = manager
         /\ worker'.latency = UINT64_MAX
         /\ EndFrame(manager, worker.frame_id, worker.complete).frame_time = UINT64_MAX)]_vars

\* C2, the case: the worker has called EndFrame for a frame whose slot did not
\* hold it and was told UINT64_MAX
C2_Witness ==
  /\ worker.pc = "idle_end"
  /\ worker.latency = UINT64_MAX
  /\ manager.frame_begin_ids_[worker.frame_id % kMaxInflightFrames] # worker.frame_id
  /\ hist.end_calls = 1

\* C3: between two Reset() calls prev_frame_end_id_, once set, never
\* decreases, under any interleaving of lfx_WaitAndBeginFrame,
\* lfx_QueuePresentKHR and fence completions.
C3_PrevEndIdNeverDecreases ==
  [][(tick.pc # "reset" /\ manager.prev_frame_end_id_ # UINT64_MAX)
     => manager'.prev_frame_end_id_ >= manager.prev_frame_end_id_]_vars

\* C4 as stated: whenever the worker calls EndFrame(f), BeginFrame(f) has
\* been called since the last recalibration.
C4_EveryEndFrameWasBegun ==
  [][(worker.pc = "end_frame" /\ worker'.pc = "idle_end")
     => worker.frame_id \in hist.begun]_vars

\* C4, amended: whenever an EndFrame(f) of the worker takes effect (it
\* changes the pacer), BeginFrame(f) has been called since the last
\* recalibration; the EndFrame calls for frames presented without a
\* BeginFrame change nothing.
C4_EffectiveEndFrameWasBegun ==
  [][(worker.pc = "end_frame" /\ worker'.pc = "idle_end" /\ manager' # manager)
     => worker.frame_id \in hist.begun]_vars

\* C4, the case: an EndFrame of a begun frame has taken effect and measured
\* its latency
C4_Witness ==
  /\ worker.pc = "idle_end"
  /\ worker.latency # UINT64_MAX
  /\ worker.frame_id \in hist.begun
  /\ manager.prev_frame_end_id_ = worker.frame_id

\* C5: for every frame id f the layer passes to BeginFrame, GetWaitTarget(f)
\* has been called exactly once since the last Reset of the pacer and before
\* that BeginFrame(f).
C5_OneWaitTargetPerBeginFrame ==
  tick.pc \in {"begin_lock", "begin_frame"} => hist.gwt_calls[tick.frame_counter_local] = 1

\* C5, the case: the layer is about to call BeginFrame of the second frame
\* since the last Reset
C5_Witness ==
  /\ tick.pc = "begin_frame"
  /\ tick.frame_counter_local = 2
  /\ hist.begun = {1}
  /\ hist.gwt_calls[1] = 1
  /\ hist.gwt_calls[2] = 1

\* C6: the duration lfx_WaitAndBeginFrame passes to IdleTracker::SleepAndBegin
\* is at most 50 ms whatever the wait target is, and a call waits at most
\* 50 ms, plus the 200 ms of the recalibration sleep when it recalibrates.
C6_SleepIsBounded ==
  /\ tick.pc \in {"sleep_enter", "sleeping"} => (0 <= tick.dur /\ tick.dur <= kFailsafe)
  /\ tick.slept <= kFailsafe + (IF tick.recalibrated THEN kRecalibrationSleepTime ELSE 0)

\* C6, the case: the wait target lies more than 50 ms ahead and the call is
\* waiting in SleepAndBegin with the clamped duration
C6_Witness ==
  /\ tick.pc = "sleeping"
  /\ tick.target > tick.now + kFailsafe
  /\ tick.clamped
  /\ tick.dur = kFailsafe

\* C7: the failsafe stores ticker_needs_reset only when the sleep was clamped
\* on more than 5 consecutive calls, and every call whose sleep is not
\* clamped (a target in the past, the recalibrating call) restarts
\* failsafe_triggered at zero.
C7_UnclampedCallRestartsFailsafeCount ==
  [][(tick.pc = "failsafe" /\ tick'.pc = "sleep_enter")
     => (/\ ~tick'.clamped => failsafe_triggered' = 0
         /\ (ticker_needs_reset' /\ ~ticker_needs_reset) => hist'.consecutive_clamps > 5)]_vars

\* the places of lfx_WaitAndBeginFrame between manager.Reset() and the call of
\* GetWaitTarget, and from the return of GetWaitTarget to the call of BeginFrame
BeforeTarget == {"read_now", "target_lock", "get_target"}
AfterTarget == {"failsafe", "sleep_enter", "sleeping", "begin_lock", "begin_frame"}

\* C8: a call that finds ticker_needs_reset set resets the pacer, clears the
\* flag, and then begins frame id 1 with the wait target 0: from Reset to
\* GetWaitTarget the pacer stays as Reset left it, whatever EndFrame calls the
\* worker makes for older sentinels in between.
C8_RecalibrationBeginsFrameOne ==
  /\ [][(tick.pc = "clear_flag" /\ tick'.pc # "clear_flag") => ~ticker_needs_reset']_vars
  /\ []((tick.recalibrated /\ tick.pc \in BeforeTarget)
         => (\E u \in UninitValues : manager = Reset(manager, u)))
  /\ []((tick.recalibrated /\ tick.pc \in AfterTarget)
         => (tick.frame_counter_local = 1 /\ tick.target = 0))

\* C8, the case: a recalibrating call is about to call BeginFrame, and the
\* worker called EndFrame between its Reset and its GetWaitTarget
C8_Witness ==
  /\ tick.pc = "begin_frame"
  /\ tick.recalibrated
  /\ tick.ends_seen = 1
  /\ tick.frame_counter_local = 1
  /\ tick.target = 0

\* C9: an acquire whose result is negative stores ticker_needs_reset and
\* returns that result unchanged; an acquire whose result is >= 0 does not
\* touch the flag; after an acquire error between two calls of
\* lfx_WaitAndBeginFrame the later call recalibrates.
C9_AcquireErrorForcesRecalibration ==
  [][/\ (render.pc = "acquire_call" /\ render'.pc = "acquire_return")
        => (/\ render'.ret = render'.res
            /\ render'.res < 0 => ticker_needs_reset'
            /\ render'.res >= 0 => ticker_needs_reset' = ticker_needs_reset)
     /\ (tick.pc = "check" /\ tick'.pc # "check" /\ hist.acquire_error_pending)
        => tick'.pc = "recal_sleep"]_vars

\* C9, the case: a call that no present has overtaken recalibrates because
\* an acquire failed before it, and is about to begin frame 1
C9_Witness ==
  /\ tick.pc = "begin_frame"
  /\ tick.acquire_error_seen
  /\ tick.sim_observed > tick.render_observed
  /\ tick.recalibrated
  /\ hist.ticks = 2

\* C10 as stated: a call that finds frame_counter <= frame_counter_render
\* after its increment recalibrates before it calls GetWaitTarget, and
\* BeginFrame is never called with a frame id <= the frame_counter_render the
\* call loaded.
C10_BeginFrameAboveObservedRender ==
  /\ (tick.pc \in {"get_target"} \cup AfterTarget /\ tick.sim_observed <= tick.render_observed)
       => tick.recalibrated
  /\ tick.pc = "begin_frame" => tick.frame_counter_local > tick.render_observed

\* C10, amended: such a call recalibrates before it calls GetWaitTarget, and
\* BeginFrame is never called with a frame id <= the call's
\* frame_counter_render_local, which is the loaded value in a call that does
\* not recalibrate and 0 in a call that does (the frame id is then 1).
C10_BeginFrameAboveRenderLocal ==
  /\ (tick.pc \in {"get_target"} \cup AfterTarget /\ tick.sim_observed <= tick.render_observed)
       => tick.recalibrated
  /\ tick.pc = "begin_frame" =>
       /\ tick.frame_counter_local > tick.frame_counter_render_local
       /\ tick.frame_counter_render_local = (IF tick.recalibrated THEN 0 ELSE tick.render_observed)

\* C10, the case: a call that loaded frame_counter <= frame_counter_render
\* has recalibrated and is about to call BeginFrame
C10_Witness ==
  /\ tick.pc = "begin_frame"
  /\ tick.sim_observed <= tick.render_observed
  /\ tick.recalibrated
  /\ tick.frame_counter_local = 1

\* C11: each lfx_QueuePresentKHR call increments frame_counter_render by
\* exactly one; if frame_counter > frame_counter_render + 16 as loaded after
\* the increment it stores ticker_needs_reset, and the next call of
\* lfx_WaitAndBeginFrame recalibrates; with a drift of 16 or less the present
\* leaves the flag as it is.
C11_DriftForcesRecalibration ==
  [][/\ (render.pc = "idle" /\ render'.pc = "load_counter")
        => frame_counter_render' = frame_counter_render + 1
     /\ (render.pc = "drift" /\ render'.pc = "present_lock")
        => (/\ render.frame_counter_local > render.frame_counter_render_local + kMaxFrameDrift
               => ticker_needs_reset'
            /\ render.frame_counter_local <= render.frame_counter_render_local + kMaxFrameDrift
               => ticker_needs_reset' = ticker_needs_reset)
     /\ (tick.pc = "check" /\ tick'.pc # "check" /\ hist.drift_pending)
        => tick'.pc = "recal_sleep"]_vars

\* C11, the case: a call whose frame_counter is above frame_counter_render
\* recalibrates because the present before it found a drift above 16
C11_Witness ==
  /\ tick.pc = "recal_sleep"
  /\ tick.drift_seen
  /\ ~tick.acquire_error_seen
  /\ tick.sim_observed > tick.render_observed + kMaxFrameDrift

\* C12: after initialization GetWaitTarget, BeginFrame, EndFrame, Reset and
\* the write of target_frame_time by lfx_SetTargetFrameTime run only while
\* the calling thread holds global_lock: no two of the tick thread, the setter
\* and the worker are inside a pacer operation at once, and the pacer changes
\* only in a step of the thread that holds the lock.
C12_PacerOperationsHoldGlobalLock ==
  /\ [](/\ tick.pc \in {"reset", "get_target", "begin_frame"} => global_lock = "tick"
        /\ worker.pc = "end_frame" => global_lock = "worker"
        /\ setter.pc = "write" => global_lock = "setter"
        /\ Cardinality({t \in {"tick", "worker", "setter"} :
                          \/ t = "tick" /\ tick.pc \in {"reset", "get_target", "begin_frame"}
                          \/ t = "worker" /\ worker.pc = "end_frame"
                          \/ t = "setter" /\ setter.pc = "write"}) <= 1)
  /\ [][manager' # manager =>
          /\ global_lock \in {"tick", "worker", "setter"}
          /\ global_lock' = "free"
          /\ global_lock = "tick" => tick' # tick
          /\ global_lock = "worker" => worker' # worker
          /\ global_lock = "setter" => setter' # setter]_vars

\* C12, the case: the worker is inside EndFrame with the lock while the tick
\* thread waits for it before BeginFrame and the setter before its write
C12_Witness ==
  /\ worker.pc = "end_frame"
  /\ global_lock = "worker"
  /\ tick.pc = "begin_lock"
  /\ setter.pc = "lock"

\* C13: lfx_DestroyDevice always completes: it joins the worker before it
\* erases the device's dispatch table and returns, also when the worker still
\* has sentinels queued or in progress whose fences are signalled; while the
\* call is in progress it or the worker can always take a step.
C13_DestroyDeviceCompletes ==
  /\ ~destroyer.device_dispatch => worker.pc = "exited"
  /\ destroyer.pc \in {"lock", "erase_thread", "join", "erase_dispatch"}
       => ENABLED (DestroySteps \/ WorkerNext \/ W_Exit)

\* C14: SleepAndBegin(f, d) always leaves last_began_frame = f; it
\* returns false exactly when last_began_frame = last_finished_frame held when
\* the wait ended (on entry, on a wake-up, at the timeout) and true when the
\* whole duration has passed with the two still different; before any frame
\* has begun it returns false without waiting.
C14_SleepAndBeginResult ==
  [][/\ (tick.pc \in {"sleep_enter", "sleeping"} /\ tick'.pc = "begin_lock")
        => (/\ idle_tracker'.last_began_frame = tick.frame_counter_local
            /\ tick'.sleep_result =
                 (IF idle_tracker.last_began_frame = idle_tracker.last_finished_frame
                  THEN "FALSE" ELSE "TRUE")
            /\ tick'.sleep_result = "TRUE"
                 => (tick.pc = "sleeping" /\ clock' >= tick.deadline))
     /\ (tick.pc = "sleep_enter" /\ tick'.pc # "sleep_enter"
         /\ idle_tracker.last_began_frame = UINT64_MAX)
        => (tick'.pc = "begin_lock" /\ tick'.sleep_result = "FALSE" /\ clock' = clock)]_vars

\* C15: if a thread is blocked in SleepAndBegin and End(g) is called with g
\* equal to last_began_frame, the sleeper is woken and SleepAndBegin returns
\* false without waiting for the rest of its duration; End(g) with g different
\* from last_began_frame only records last_finished_frame = g and does not end
\* the wait.
C15_EndOfBegunFrameEndsTheWait ==
  [][/\ (tick.pc = "sleeping" /\ tick'.pc # "sleeping" /\ hist.ended_while_waiting)
        => (tick'.sleep_result = "FALSE" /\ clock' = clock)
     /\ (worker.pc = "idle_end" /\ worker'.pc # "idle_end" /\ tick.pc = "sleeping"
         /\ worker.frame_id # idle_tracker.last_began_frame)
        => (/\ idle_tracker' =
                 [idle_tracker EXCEPT !.last_finished_frame = worker.frame_id]
            /\ tick' = tick)]_vars

\* C16: in lfx_QueuePresentKHR exactly one sentinel is pushed per call, it
\* carries the frame_counter_render value that the call's increment produced,
\* and it is pushed before the next layer's QueuePresentKHR is called.
C16_OneSentinelPerPresent ==
  [][/\ Len(queue_') > Len(queue_)
        => (/\ render.pc = "present_locked"
            /\ render'.pc = "present_call"
            /\ queue_'[Len(queue_')].frame_id = render.incremented
            /\ SubSeq(queue_', 1, Len(queue_)) = queue_)
     /\ (render.pc = "present_locked" /\ render'.pc # "present_locked")
        => (Len(queue_') = Len(queue_) + 1 /\ render'.pc = "present_call")
     /\ (render.pc = "present_call" /\ render'.pc # "present_call")
        => (queue_' = queue_ /\ render'.pc = "idle")]_vars

\* C17: if the creation of the sentinel fence fails in lfx_QueuePresentKHR,
\* no sentinel of that frame is handed to the completion waiter and no
\* EndFrame is issued for it, while the real present is still performed.
C17_NoSentinelWithoutFence ==
  /\ [][(render.pc = "present_locked" /\ render'.pc # "present_locked"
          /\ render'.create_res < 0)
         => (queue_' = queue_ /\ render'.pc = "present_call")]_vars
  /\ [](worker.pc = "end_frame" => worker.fence = "created")

\* C18: with target_frame_time = T > 0, every inter-frame time that EndFrame
\* feeds to the estimator inv_throughtput_ is at least T.
C18_FpsFloor ==
  [][(/\ manager.target_frame_time > 0
      /\ hist'.ops = hist.ops + 1
      /\ hist'.last_op = "EndFrame"
      /\ manager'.inv_throughtput_ # manager.inv_throughtput_)
     => \E frame_time_val \in manager.target_frame_time .. kClampHi :
          manager'.inv_throughtput_ = update(manager.inv_throughtput_, frame_time_val)]_vars

\* C19: after any calls of GetWaitTarget, BeginFrame and EndFrame, Reset
\* leaves the pacer indistinguishable from a newly constructed pacer with
\* the same target_frame_time: every later call returns the same on both, and
\* Reset leaves target_frame_time as it was.
C19_ResetIsFresh ==
  /\ [](hist.agree)
  /\ [][(hist'.ops = hist.ops + 1 /\ hist'.last_op = "Reset")
        => (/\ manager'.target_frame_time = manager.target_frame_time
            /\ fresh'.target_frame_time = manager'.target_frame_time)]_vars

\* C19, the case: a pacer in which a frame had ended was reset, a frame was
\* then begun and ended on it and on the new pacer, and GetWaitTarget
\* returned the same target, not 0, on both
C19_Witness ==
  /\ hist.reset_used
  /\ hist.last_op = "GetWaitTarget"
  /\ hist.ret # <<0>>
  /\ hist.ret = hist.fresh_ret

\* C20: Reset is idempotent: in any reachable pacer state, calling Reset
\* twice in a row yields the same state as calling it once.
C20_ResetIdempotent ==
  [][(hist.resets_in_row >= 1 /\ hist'.resets_in_row = hist.resets_in_row + 1)
     => \E u \in UninitValues : manager' = [manager EXCEPT !.prev_frame_end_ts_ = u]]_vars

\* C20, amended: calling Reset twice in a row yields the state of calling it
\* once, except that a build with LATENCYFLEX_HAVE_PERFETTO has moved
\* track_base_ on by a further 2 * kMaxInflightFrames; either leaves
\* prev_frame_end_ts_ uninitialized.
C20_ResetIdempotentButTrack ==
  [][(hist.resets_in_row >= 1 /\ hist'.resets_in_row = hist.resets_in_row + 1)
     => \E u \in UninitValues :
          manager' = [manager EXCEPT
                        !.prev_frame_end_ts_ = u,
                        !.track_base_ = IF LATENCYFLEX_HAVE_PERFETTO
                                        THEN @ + 2 * kMaxInflightFrames ELSE @]]_vars

\* C20, the case: a pacer with a target frame time was used and then reset
\* twice in a row, in a build that traces
C20_Witness ==
  /\ LATENCYFLEX_HAVE_PERFETTO
  /\ hist.resets_in_row = 2
  /\ hist.ops > 3
  /\ manager.target_frame_time = TargetFrameTime
  /\ manager.track_base_ = 4 * kMaxInflightFrames

\* C21: after BeginFrame(f), an EndFrame(g) with g mod 16 different from
\* f mod 16 leaves the begin id, the begin timestamp and the projected end
\* of slot f mod 16 unchanged.
C21_EndFrameLeavesOtherSlots ==
  [][(hist'.ops = hist.ops + 1 /\ hist'.last_op = "EndFrame")
     => \A f \in PacerFrames :
          (/\ manager.frame_begin_ids_[f % kMaxInflightFrames] = f
           /\ f % kMaxInflightFrames # hist'.frame_id % kMaxInflightFrames)
          => (/\ manager'.frame_begin_ids_[f % kMaxInflightFrames] = f
              /\ manager'.frame_begin_ts_[f % kMaxInflightFrames]
                   = manager.frame_begin_ts_[f % kMaxInflightFrames]
              /\ manager'.frame_end_projected_ts_[f % kMaxInflightFrames]
                   = manager.frame_end_projected_ts_[f % kMaxInflightFrames])]_vars

\* C21, the case: frames 1 and 2 were begun, the EndFrame of frame 2 took
\* effect, and slot 1 still holds frame 1 and its begin timestamp
C21_Witness ==
  /\ hist.last_op = "EndFrame"
  /\ hist.frame_id = 2
  /\ hist.ret[1] # UINT64_MAX
  /\ manager.frame_begin_ids_[1] = 1
  /\ manager.frame_begin_ts_[1] > 0

C23_PlaceboSkipsOnlyTheSleep ==
  /\ [](is_placebo_mode
          => tick.slept = IF tick.recalibrated THEN kRecalibrationSleepTime ELSE 0)
  /\ [][(is_placebo_mode /\ tick.pc = "failsafe" /\ tick'.pc # "failsafe")
        => (tick'.pc = "sleep_enter" /\ tick'.dur = 0 /\ tick'.wakeup = tick.now)]_vars
  /\ [][(is_placebo_mode /\ tick.pc = "begin_frame" /\ tick'.pc # "begin_frame")
        => LET f == tick.frame_counter_local IN
           /\ hist.gwt_calls[f] >= 1
           /\ manager'.frame_begin_ids_[f % kMaxInflightFrames] = f
           /\ manager'.frame_begin_ts_[f % kMaxInflightFrames] = tick.now]_vars
  /\ [][(is_placebo_mode /\ worker.pc = "end_frame" /\ worker'.pc # "end_frame"
           /\ manager.frame_begin_ids_[worker.frame_id % kMaxInflightFrames]
                = worker.frame_id)
        => (/\ manager'.prev_frame_end_id_ = worker.frame_id
            /\ manager'.prev_frame_end_ts_ = worker.complete)]_vars

\* C23, the case: in placebo mode a frame has ended, GetWaitTarget put the
\* target of the next frame in the future, and the call is about to begin the
\* frame at the time it read, without having slept
C23_Witness ==
  /\ is_placebo_mode
  /\ tick.pc = "begin_frame"
  /\ manager.prev_frame_end_id_ # UINT64_MAX
  /\ tick.target > tick.now
  /\ tick.wakeup = tick.now
  /\ tick.slept = 0

\* C24: the worker processes the sentinels in the order they were pushed,
\* each once, and for each it waits for the fence, reads the clock and
\* destroys the fence, calls EndFrame(frame_id, ts) under global_lock, then
\* IdleTracker::End(frame_id): EndFrame(f) precedes End(f), and the calls of
\* EndFrame are made in push order.
C24_WorkerIsFifo ==
  /\ [](LET inhand == IF worker.pc \in {"wait_fence", "end_lock", "end_frame"}
                      THEN <<worker.frame_id>> ELSE <<>>
            ending == IF worker.pc = "idle_end" THEN <<worker.frame_id>> ELSE <<>>
        IN /\ hist.pushed
                = hist.end_frames \o inhand \o [i \in 1 .. Len(queue_) |-> queue_[i].frame_id]
           /\ hist.end_frames = hist.ends \o ending
           /\ (worker.pc = "end_frame" => global_lock = "worker"))
  /\ [][worker'.pc # worker.pc
        => <<worker.pc, worker'.pc>> \in
             {<<"wait_queue", "wait_fence">>, <<"wait_fence", "end_lock">>,
              <<"end_lock", "end_frame">>, <<"end_frame", "idle_end">>,
              <<"idle_end", "wait_queue">>}]_vars
  /\ [][(worker.pc = "wait_fence" /\ worker'.pc = "end_lock")
        => worker'.complete = clock]_vars
  /\ [][(worker.pc = "end_frame" /\ worker'.pc = "idle_end")
        => manager' = EndFrame(manager, worker.frame_id, worker.complete).m]_vars

\* C24, the case: a sentinel was pushed while another waited in the queue,
\* and the worker has ended both frames, with different ids
C24_Witness ==
  /\ Len(hist.ends) >= 2
  /\ hist.pushed[1] # hist.pushed[2]
  /\ hist.ends[1] = hist.pushed[1]
  /\ hist.ends[2] = hist.pushed[2]
  /\ Len(queue_) >= 1

\* C25: destroying a FenceWaitThread (running_ = false, notify_all, join)
\* always terminates: the worker processes every sentinel still in the
\* queue and then exits, in every interleaving of the destructor with the
\* worker's test of the empty queue and its wait on the condition variable.
C25_DestructorTerminates ==
  (destroyer.pc = "erase_thread") ~> (worker.pc = "exited" /\ destroyer.pc = "done")

\* C26: the begin timestamp lfx_WaitAndBeginFrame passes to BeginFrame is
\* the planned wake-up (the target, clamped to now + 50 ms) when SleepAndBegin
\* returned true; the clock read after the wait when it returned false; and
\* the clock value read before GetWaitTarget when the target was not in the
\* future or placebo mode is on.
C26_BeginTimestamp ==
  /\ [][(tick.pc \in {"sleep_enter", "sleeping"} /\ tick'.pc = "begin_lock")
        => tick'.wakeup =
             IF is_placebo_mode \/ tick.target <= tick.now THEN tick.now
             ELSE IF tick'.sleep_result = "TRUE"
                  THEN Min(tick.target, tick.now + kFailsafe)
                  ELSE clock']_vars
  /\ [][(tick.pc = "begin_lock" /\ tick'.pc = "begin_frame")
        => tick'.wakeup = tick.wakeup]_vars
  /\ [][(tick.pc = "begin_frame" /\ tick'.pc # "begin_frame")
        => manager'.frame_begin_ts_[tick.frame_counter_local % kMaxInflightFrames]
             = tick.wakeup]_vars

\* C26, the case: the target lay in the future, SleepAndBegin returned
\* false, and the call is about to begin the frame at the time read after
\* the wait, which is neither the planned wake-up nor the time read before
\* GetWaitTarget
C26_Witness ==
  /\ ~is_placebo_mode
  /\ tick.pc = "begin_frame"
  /\ tick.target > tick.now
  /\ tick.sleep_result = "FALSE"
  /\ tick.wakeup # tick.now
  /\ tick.wakeup # Min(tick.target, tick.now + kFailsafe)

\* C27: an EndFrame(f) that takes effect feeds the latency estimator only
\* when f is odd (down phase) and feeds the inverse-throughput estimator
\* only when f is even (up phase), a previous frame has ended and
\* f > prev_frame_end_id_; no single EndFrame updates both estimators.
C27_EstimatorsFedByPhase ==
  [][(hist'.ops = hist.ops + 1 /\ hist'.last_op = "EndFrame")
     => LET f == hist'.frame_id
            fed_latency == manager'.latency_ # manager.latency_
            fed_throughput == manager'.inv_throughtput_ # manager.inv_throughtput_
        IN /\ fed_latency
                => (f % 2 = 1 /\ manager.frame_begin_ids_[f % kMaxInflightFrames] = f)
           /\ fed_throughput
                => (/\ f % 2 = 0
                    /\ manager.frame_begin_ids_[f % kMaxInflightFrames] = f
                    /\ manager.prev_frame_end_id_ # UINT64_MAX
                    /\ f > manager.prev_frame_end_id_)
           /\ ~(fed_latency /\ fed_throughput)]_vars

\* C27, the case: EndFrame of frame 1 has fed the latency estimator, and
\* EndFrame of frame 2 has then fed the inverse-throughput estimator alone
C27_Witness ==
  /\ hist.last_op = "EndFrame"
  /\ hist.frame_id = 2
  /\ manager.prev_frame_end_id_ = 2
  /\ manager.latency_.current_weight_ = manager.latency_.alpha_
  /\ manager.inv_throughtput_.current_weight_ = manager.inv_throughtput_.alpha_

\* the step of an EndFrame call feeds an estimator nothing, or one sample
\* of [1 ms, 50 ms]
FedWithin(e, e1) ==
  \/ e1 = e
  \/ \E v \in kClampLo .. kClampHi :
       e1 = [e EXCEPT !.current_ = FMul(Scale - e.alpha_, e.current_) + e.alpha_ * v,
                      !.current_weight_ = FMul(Scale - e.alpha_, e.current_weight_) + e.alpha_]

SamplesClamped ==
  [][/\ FedWithin(manager.latency_, manager'.latency_)
     /\ FedWithin(manager.inv_throughtput_, manager'.inv_throughtput_)]_vars

\* an estimate is 0 or within [1 ms, 50 ms]
EstimateWithin(e) ==
  get(e) = 0 \/ (kClampLo * Scale <= get(e) /\ get(e) <= kClampHi * Scale)

\* an estimate is 0, or within [1 ms, 50 ms] widened by what the rounding
\* of the estimator's arithmetic can add: each of the two sums of update
\* loses less than one unit to rounding, 1 / alpha_ units in all, and the
\* weight is alpha_ or more
EstimateWithinRounding(e) ==
  \/ get(e) = 0
  \/ /\ get(e) > 0
     /\ kClampLo * Scale - get(e) <= (kClampLo * Scale * Scale) \div (e.alpha_ * e.alpha_)
     /\ get(e) - kClampHi * Scale <= (kClampHi * Scale * Scale) \div (e.alpha_ * e.alpha_)

up_factor_ == (110 * Scale) \div 100

down_factor_ == (985 * Scale) \div 1000

\* a quotient of two fixed-point values, rounded toward zero
FDiv(a, b) ==
  IF a >= 0 THEN (a * Scale) \div b ELSE 0 - (((0 - a) * Scale) \div b)

\* the wait target of the later revision for frame_id: m is the pacer
\* before the call, m1 the pacer after it
WaitTargetByFactors(m, m1, frame_id) ==
  LET delta == ToI64(frame_id) - ToI64(m.prev_frame_begin_id_)
      inv_up == IF frame_id % 2 = 0 THEN InvGain(up_factor_) ELSE Scale
  IN ToU64(ToI64(m1.frame_end_projection_base_) +
           ToI64(m.frame_end_projected_ts_[m.prev_frame_begin_id_ % kMaxInflightFrames]) +
           Trunc(Max(get(m1.proj_correction_), 0)) +
           Round(FDiv(FMul(delta * Scale + inv_up - Scale, get(m.inv_throughtput_)),
                      down_factor_)
                 - get(m.latency_)))

\* C29: after at least one frame has ended, GetWaitTarget(f) returns
\* projection_base + projected_end_ts[prev_begin_id] + comp +
\* round(((f - prev_begin_id) + 1/up_factor - 1) * inv_throughput_est /
\* down_factor - latency_est) for even f, and the same with 1/up_factor
\* replaced by 1 for odd f, with up_factor = 1.10 and down_factor = 0.985
C29_WaitTargetByFactors ==
  [][(/\ hist'.last_op = "GetWaitTarget"
      /\ hist'.ops = hist.ops + 1
      /\ manager.prev_frame_end_id_ # UINT64_MAX)
     => hist'.ret[1] = WaitTargetByFactors(manager, manager', hist'.frame_id)]_vars

\* the prediction error of the last ended frame: its end minus its
\* projected end
PredictionError(m) ==
  ToI64(m.prev_frame_end_ts_) -
  (ToI64(m.frame_end_projection_base_) +
   ToI64(m.frame_end_projected_ts_[m.prev_frame_end_id_ % kMaxInflightFrames]))

\* C30: on every GetWaitTarget call after the projection base is set, the
\* correction estimator is updated with max(0, err) - max(0,
\* prev_prediction_error - comp_applied[prev_end_id]), where err =
\* prev_end_ts - (projection_base + projected_end_ts[prev_end_id]); a frame
\* that ended earlier than projected contributes no negative sample
C30_CorrectionSampleClamped ==
  [][(/\ hist'.last_op = "GetWaitTarget"
      /\ hist'.ops = hist.ops + 1
      /\ manager.prev_frame_end_id_ # UINT64_MAX
      /\ manager.frame_end_projection_base_ # UINT64_MAX)
     => manager'.proj_correction_ =
          update(manager.proj_correction_,
                 Max(0, PredictionError(manager)) -
                 Max(0, manager.prev_correction_ -
                        hist.comp_applied[manager.prev_frame_end_id_ % kMaxInflightFrames]))]_vars

\* the oversleep of a frame begun at timestamp for the wait target target:
\* int64_t forced_correction = timestamp - target
ForcedCorrection(target, timestamp) == ToI64(timestamp) - ToI64(target)

\* C31: BeginFrame(f, target, ts) with target # 0 adds the oversleep
\* ts - target to projected_end_ts[f], to comp_applied[f] and to
\* prev_prediction_error; with target = 0 it changes none of the three
C31_BeginFrameAddsOversleep ==
  [][(tick.pc = "begin_frame" /\ tick'.pc # "begin_frame")
     => LET slot == tick.frame_counter_local % kMaxInflightFrames
            forced == IF tick.target # 0
                      THEN ForcedCorrection(tick.target, tick.wakeup) ELSE 0
        IN /\ manager'.frame_end_projected_ts_[slot] =
                ToU64(ToI64(manager.frame_end_projected_ts_[slot]) + forced)
           /\ hist'.comp_applied[slot] = hist.comp_applied[slot] + forced
           /\ manager'.prev_correction_ = manager.prev_correction_ + forced]_vars

\* C32: each BeginFrame(f) is consumed by at most one EndFrame(f): after an
\* EndFrame(f) has taken effect, a further EndFrame(f) before the next
\* BeginFrame(f) changes no estimator, prev_end_id or prev_end_ts (nor
\* anything else of the pacer) and reports no latency and no frame time
C32_EndFrameConsumesBegin ==
  [][(/\ hist'.last_op = "EndFrame"
      /\ hist'.ops = hist.ops + 1
      /\ hist'.frame_id \in hist.consumed)
     => /\ manager' = manager
        /\ hist'.ret = <<UINT64_MAX, UINT64_MAX>>]_vars

\* C32, the case: EndFrame has been called again for a frame it had
\* consumed, after another frame ended in between
C32_Witness ==
  /\ hist.last_op = "EndFrame"
  /\ hist.again
  /\ manager.prev_frame_end_id_ # UINT64_MAX
  /\ manager.prev_frame_end_id_ # hist.frame_id

\* C33: in every reachable pacer state each slot i of the 16-entry table
\* is empty (UINT64_MAX) or holds a frame id congruent to i modulo 16, and
\* whenever prev_frame_end_id_ is set prev_frame_begin_id_ is set too, so
\* GetWaitTarget never indexes the table with an unset id
C33_SlotsCongruent ==
  /\ \A i \in Slots :
       \/ manager.frame_begin_ids_[i] = UINT64_MAX
       \/ manager.frame_begin_ids_[i] % kMaxInflightFrames = i
  /\ manager.prev_frame_end_id_ # UINT64_MAX
       => manager.prev_frame_begin_id_ # UINT64_MAX

\* C33, the case: a frame has ended and the table has wrapped around since
\* (a slot holds a frame id that is not its index)
C33_Witness ==
  /\ \E i \in Slots :
       /\ manager.frame_begin_ids_[i] # UINT64_MAX
       /\ manager.frame_begin_ids_[i] # i
  /\ manager.prev_frame_end_id_ # UINT64_MAX
  /\ manager.prev_frame_begin_id_ >= kMaxInflightFrames

\* the worker's next EndFrame call is for a sentinel that was pushed before
\* the last recalibration began, and the Reset of that recalibration has
\* been made
StaleSentinel ==
  /\ Len(hist.end_frames) + 1 <= hist.stale_upto
  /\ tick.pc \notin {"store_counter", "store_render", "clear_flag", "reset_lock", "reset"}

\* C34: a sentinel pushed before a recalibration never updates the reset
\* pacer: when its fence completes after the Reset, the resulting EndFrame
\* changes nothing, under any interleaving of ticks, presents and
\* completions
C34_StaleSentinelIsNoOp ==
  [][(worker.pc = "end_frame" /\ worker'.pc = "idle_end" /\ StaleSentinel)
     => manager' = manager]_vars

\* C35: whenever the idle tracker reports idle after at least one frame has
\* begun (last_began_frame = last_finished_frame), no frame is in flight:
\* the queue of the completion waiter is empty and the worker is not
\* waiting on any fence
C35_IdleMeansNothingInFlight ==
  (idle_tracker.last_began_frame # UINT64_MAX /\ Idle(idle_tracker))
    => (queue_ = <<>> /\ worker.pc # "wait_fence")

\* C36: between two recalibrations the frame ids handed to the completion
\* waiter by successive lfx_QueuePresentKHR calls are at least 1 and
\* increase by one, also when a present runs beside the counter reset of a
\* recalibrating lfx_WaitAndBeginFrame: the increment and the load of
\* frame_counter_render behave as one step, so each call numbers its
\* sentinel with the value of its own increment
C36_PresentIdsIncreaseByOne ==
  /\ [][(render.pc = "load_render" /\ render'.pc # "load_render")
        => render'.frame_counter_render_local = render.incremented]_vars
  /\ [][(render.pc = "present_locked" /\ render'.pc # "present_locked")
        => /\ Len(hist'.pushed) = Len(hist.pushed) + 1
           /\ hist'.pushed[Len(hist'.pushed)] = render.incremented
           /\ hist'.pushed[Len(hist'.pushed)] >= 1]_vars

\* C37: every acquire error is followed by a recalibration that resets
\* both counters after the error occurred: where an acquire has failed
\* after the counter reset of a recalibration, that recalibration does not
\* clear the ticker_needs_reset the intercept has set
C37_AcquireErrorNotLost ==
  [][(tick.pc = "clear_flag" /\ tick'.pc # "clear_flag" /\ hist.error_since_store)
     => ticker_needs_reset']_vars

\* C38: while no recalibration is pending (ticker_needs_reset is clear),
\* the BeginFrame of lfx_WaitAndBeginFrame never overwrites a slot still
\* occupied by an earlier frame awaiting its EndFrame: the slot it writes
\* is empty, so the frames begun and not yet ended are those in the table,
\* at most 16
C38_BeginFrameFindsSlotEmpty ==
  [][(tick.pc = "begin_frame" /\ tick'.pc # "begin_frame" /\ ~ticker_needs_reset)
     => manager.frame_begin_ids_[tick.frame_counter_local % kMaxInflightFrames]
          = UINT64_MAX]_vars

\* lfx_WaitAndBeginFrame is at one of its waits: the 200 ms recalibration
\* sleep, or inside IdleTracker::SleepAndBegin
TickWaits == tick.pc \in {"recal_sleep", "sleep_enter", "sleeping"}

\* C39: lfx_WaitAndBeginFrame never waits while holding global_lock: at
\* the recalibration sleep and inside IdleTracker::SleepAndBegin the lock
\* is not held by the ticker, so a present or the worker's EndFrame can
\* take it during the wait
C39_NoWaitUnderGlobalLock == TickWaits => global_lock # "tick"

\* C39, the case: a call that has made its recalibration sleep now waits
\* inside SleepAndBegin while another thread holds global_lock
C39_Witness ==
  /\ tick.pc = "sleeping"
  /\ tick.recalibrated
  /\ global_lock \in {"render", "worker"}

\* the k-th sentinel pushed has had its EndFrame and its IdleTracker::End
Processed(k) ==
  /\ Len(hist.end_frames) >= k
  /\ Len(hist.ends) >= k
  /\ hist.end_frames[k] = hist.pushed[k]
  /\ hist.ends[k] = hist.pushed[k]

\* C40: every sentinel pushed to the completion waiter is eventually
\* processed: with every fence signalled and the worker scheduled fairly,
\* EndFrame and IdleTracker::End are eventually called for it, whether it
\* was pushed while the worker waited on the empty queue, was about to
\* wait, or was busy with an earlier sentinel
C40_SentinelEventuallyProcessed ==
  \A k \in 1..WaiterPresents : (Len(hist.pushed) >= k) ~> Processed(k)

\* the same for the runs in which lfx_DestroyDevice is never called
C40_ProcessedUnlessDestroyed ==
  \A k \in 1..WaiterPresents :
    (Len(hist.pushed) >= k) ~> (Processed(k) \/ destroyer.pc # "idle")

====
